---- MODULE Spec2Model ----
(***************************************************************************)
(* The ledger core of the 5470 blockchain repository as state machines.    *)
(*                                                                         *)
(* The repository holds several independent ledger implementations; each   *)
(* is modelled by its own group of variables and its own specification:    *)
(*   SpecChain5470  src/blockchain.py          class Blockchain5470        *)
(*   SpecChainSeq   the same class with a single mining worker             *)
(*   SpecRetarget   the same class, _adjust_difficulty as a function       *)
(*   SpecChainRace  the same class, two workers, one step per search       *)
(*   SpecCoreNode   src/core/node.py           class CoreNode              *)
(*   SpecPeerConn   src/core/node.py           one inbound connection      *)
(*   SpecCoreNodeSync  SpecCoreNode with every handshake message delivered *)
(*   SpecCoreNodeRestart  CoreNode with restarts of its process            *)
(*   SpecLedger     src/blockchain_5470_synced_ai_zk.py  class Blockchain  *)
(*   SpecReward     the same file, get_block_reward as a pure function     *)
(*   SpecRealChain  src/core/blockchain.py     class RealBlockchain        *)
(*   SpecSeedNode   src/core/seed_node_server.py  class SeedNodeServer     *)
(*   SpecP2PNode    src/core/p2p_node.py       class DecentralizedNode     *)
(*   SpecGenesis    the genesis blocks of two ledgers of each class        *)
(*                                                                         *)
(* SHA-256 / SHA3 digests are modelled as ideal hashes: a digest is the    *)
(* record [pre |-> preimage, z |-> leading zeros], so two digests are      *)
(* equal exactly when their preimages are, and the proof-of-work test      *)
(* int(hash,16) < 2^(256-n) is the test z >= n on the number of leading    *)
(* zero bits (z is a fixed pseudo-random function of the preimage).        *)
(***************************************************************************)
EXTENDS Integers, Sequences, FiniteSets, TLC

(***************************************************************************)
(* Bounds of the model.                                                    *)
(***************************************************************************)
MaxChain == 3        \* blocks a chain may hold when a miner starts a candidate
MaxMiners == 2       \* mining worker threads start_mining may spawn
MaxNonce == 5        \* header nonces one search may try
MaxEnv == 3          \* calls and messages from outside
StartDelay == 86400  \* seconds between the genesis timestamp and construction
MaxEra == 66         \* halving periods the queried heights reach
MalformedRun == 50   \* unparsable messages in a row one connection may carry
MaxAhead == 2        \* blocks a peer may be ahead when it answers a handshake
SeqMaxChain == 12    \* blocks the chain of the lone mining worker may hold
MaxDifficulty == 3   \* largest of the small difficulty targets a retarget is asked for
MaxSeedPasses == 8   \* passes of the seed server's periodic cleanup
RaceMaxChain == 11   \* blocks the chain of two racing mining workers may hold
MaxConstructGap == 10  \* seconds between the construction of the first ledger and of another
MaxSockets == 3      \* connections a DecentralizedNode opens or accepts
MaxP2PPasses == 6    \* passes of the DecentralizedNode's periodic worker

(***************************************************************************)
(* Program constants.                                                      *)
(***************************************************************************)
GenesisTime == 1640995200   \* blockchain.py:159,169
InitialDifficulty == 20     \* blockchain.py:137,170
BlockTimeTarget == 600      \* blockchain.py:138
BlockSizeLimit == 10        \* blockchain.py:208
RetargetWindow == 10        \* blockchain.py:294,298
GenesisWork == 1            \* blockchain.py:178
BlockReward5470 == 50       \* blockchain.py:264
MinDifficulty == 1          \* blockchain.py:307
RealMiningReward == 10      \* core/blockchain.py:119
RealDifficulty == 4         \* core/blockchain.py:120
RealMiningAddress == "0x742d35Cc6635C0532925a3b8D2c23a12D2c53f15"  \* core/rpc_server.py:30
SeedCleanupInterval == 60   \* core/seed_node_server.py:265
SeedPeerTimeout == 300      \* core/seed_node_server.py:271
P2PPeerTimeout == 120       \* core/p2p_node.py:462
P2PPingInterval == 30       \* core/p2p_node.py:446

VARIABLES
  clock,              \* time.time(), in seconds
  env,                \* number of calls and messages from outside so far
  \* ---- Blockchain5470 (src/blockchain.py)
  chain,              \* self.chain: sequence of blocks
  mempool,            \* self.mempool: sequence of transactions
  difficulty_target,  \* self.difficulty_target
  best_work,          \* self.best_work
  mining,             \* self.mining
  miner,              \* per mining_worker thread: its position and locals
  \* ---- CoreNode (src/core/node.py)
  blockchain,         \* self.blockchain: sequence of blocks
  node_mempool,       \* self.mempool: sequence of transactions
  utxo_set,           \* self.utxo_set: address -> transactions received
  blockchain_file,    \* data_dir/blockchain.json as last saved
  is_running,         \* self.is_running
  is_mining,          \* self.is_mining
  mining_thread,      \* the mining_loop thread: its position and locals
  node_last,          \* the operation that ran last and its outcome
  conn,               \* one inbound connection: the handle_peer_connection thread
  peer_link,          \* the outbound connection made by connect_to_peer
  sent,               \* messages written to the outbound connection, in order
  \* ---- Blockchain (src/blockchain_5470_synced_ai_zk.py)
  zk_chain,           \* self.chain: sequence of blocks
  balances,           \* self.balances: address -> base units
  nonces,             \* self.nonces: address -> next expected nonce
  pending_transactions, \* self.pending_transactions
  zk_is_mining,       \* _is_mining
  zk_mining_stop,     \* _mining_stop, the event
  zk_thread,          \* per thread: its position in mine_once and locals
  zk_last,            \* the request or step that ran last and its outcome
  reward_query,       \* get_block_reward: the height asked last and the result
  retarget_query,     \* _adjust_difficulty: the chain and target asked last and the result
  genesis_query,      \* two ledgers of each class: when each was constructed, their genesis blocks
  \* ---- RealBlockchain (src/core/blockchain.py)
  real_chain,         \* self.chain: sequence of blocks
  real_pending,       \* self.pending_transactions
  real_balances,      \* self.balances: address -> coins
  mining_active,      \* self.mining_active
  real_thread,        \* per thread: its position in mine_pending_transactions and locals
  real_last,          \* the call or step that ran last and its outcome
  \* ---- SeedNodeServer (src/core/seed_node_server.py)
  connected_peers,    \* self.connected_peers: the websockets registered
  peer_info,          \* self.peer_info: peer id -> its record (the counters left out)
  open_sockets,       \* the websockets whose connection is open
  \* ---- DecentralizedNode (src/core/p2p_node.py)
  peers,              \* self.peers: peer id -> its PeerInfo (last_seen, connected)
  connections,        \* self.connections: peer id -> socket
  sockets             \* the sockets opened so far, each with its handler thread

chainVars == <<chain, mempool, difficulty_target, best_work, mining, miner>>
nodeVars == <<blockchain, node_mempool, utxo_set, blockchain_file,
              is_running, is_mining, mining_thread, node_last>>
netVars == <<conn, peer_link, sent>>
ledgerVars == <<zk_chain, balances, nonces, pending_transactions, zk_is_mining,
                zk_mining_stop, zk_thread, zk_last>>
queryVars == <<reward_query, retarget_query, genesis_query>>
realVars == <<real_chain, real_pending, real_balances, mining_active, real_thread,
              real_last>>
seedVars == <<connected_peers, peer_info, open_sockets>>
p2pVars == <<peers, connections, sockets>>
vars == <<clock, env, chainVars, nodeVars, netVars, ledgerVars, queryVars, realVars,
          seedVars, p2pVars>>
notChain5470 == <<nodeVars, netVars, ledgerVars, queryVars, realVars, seedVars, p2pVars>>
notCoreNode == <<chainVars, ledgerVars, queryVars, realVars, seedVars, p2pVars>>
notLedger == <<chainVars, nodeVars, netVars, queryVars, realVars, seedVars, p2pVars>>
notReward == <<clock, env, chainVars, nodeVars, netVars, ledgerVars, retarget_query,
               genesis_query, realVars, seedVars, p2pVars>>
notRetarget == <<clock, env, chainVars, nodeVars, netVars, ledgerVars, reward_query,
                 genesis_query, realVars, seedVars, p2pVars>>
notGenesis == <<clock, env, chainVars, nodeVars, netVars, ledgerVars, reward_query,
                retarget_query, realVars, seedVars, p2pVars>>
notRealChain == <<chainVars, nodeVars, netVars, ledgerVars, queryVars, seedVars, p2pVars>>
notSeedNode == <<env, chainVars, nodeVars, netVars, ledgerVars, queryVars, realVars,
                 p2pVars>>
notP2PNode == <<env, chainVars, nodeVars, netVars, ledgerVars, queryVars, realVars,
                seedVars>>

Miners == 1..MaxMiners

(***************************************************************************)
(* Helpers.                                                                *)
(***************************************************************************)
Last(s) == s[Len(s)]

Prefix(s, n) == SubSeq(s, 1, IF Len(s) < n THEN Len(s) ELSE n)

RECURSIVE Pow2(_)
Pow2(n) == IF n = 0 THEN 1 ELSE 2 * Pow2(n - 1)

\* list.remove(x): drops the first occurrence of x
RemoveFirst(s, x) ==
  IF \E i \in 1..Len(s) : s[i] = x
  THEN LET k == CHOOSE i \in 1..Len(s) : s[i] = x /\ \A j \in 1..(i - 1) : s[j] # x
       IN SubSeq(s, 1, k - 1) \o SubSeq(s, k + 1, Len(s))
  ELSE s

InSeq(x, s) == \E i \in 1..Len(s) : s[i] = x

(***************************************************************************)
(* src/blockchain.py: Transaction, BlockHeader, Block.                     *)
(***************************************************************************)
\* Transaction.get_hash: SHA-256 over the fields other than tx_id,
\* signature and is_coinbase.
TxGetHash(tx) == [pre |-> <<tx.to, tx.amount, tx.timestamp, tx.public_key>>]

\* sk.get_verifying_key().to_string().hex(): the public key of a private key
VerifyingKey(sk) ==
  CASE sk = "alice_sk" -> "alice_pk"
    [] sk = "mallory_sk" -> "mallory_pk"
    [] OTHER -> ""

\* A signature field that is not the hex of an ECDSA signature, such as ""
\* or "coinbase_signature"
NoSignature == [sk |-> "", message |-> [pre |-> <<>>]]

\* sk.sign(message).hex(): verifies under the public key of sk for this
\* message and for no other
Sign(sk, message) == [sk |-> sk, message |-> message]

\* Transaction.verify_signature: the public key is rebuilt from public_key
\* and the signature checked against get_hash() of the transaction as it is
\* now; any exception gives False.
VerifySignature(tx) ==
  /\ tx.public_key # ""
  /\ tx.signature.sk # ""
  /\ VerifyingKey(tx.signature.sk) = tx.public_key
  /\ tx.signature.message = TxGetHash(tx)

\* The "0" * 64 digest: all 256 bits are zero.
ZeroHash == [pre |-> <<>>, z |-> 256]

\* Leading zero bits of SHA-256 of a header.  The genesis header is fixed
\* by the source and its digest 7c3fc3dc... has one leading zero bit; any
\* other header gets 18..22 from a mix of all its fields.
HeaderZeroBits(h) ==
  IF h.height = 0
  THEN 1
  ELSE 18 + ((3 * h.nonce + h.height + h.timestamp + h.n_bits
              + h.prev_hash.z + Len(h.merkle_root.pre)) % 5)

\* BlockHeader.get_hash
HeaderGetHash(h) == [pre |-> h, z |-> HeaderZeroBits(h)]

\* Plausible slip: the comparison against 2 ** (257 - n_bits).
BelowTargetOffByOne(hash, n_bits) == hash.z >= n_bits - 1

\* int(block_hash, 16) < 2 ** (256 - n_bits)
BelowTarget(hash, n_bits) == hash.z >= n_bits

\* One level of the Merkle tree: pad an odd level with its last hash,
\* then hash the concatenation of each pair.
MerkleLevel(hs) ==
  LET padded == IF Len(hs) % 2 = 1 THEN Append(hs, Last(hs)) ELSE hs
  IN [i \in 1..(Len(padded) \div 2) |-> [pre |-> <<padded[2 * i - 1], padded[2 * i]>>]]

RECURSIVE MerkleReduce(_)
MerkleReduce(hs) == IF Len(hs) = 1 THEN hs[1] ELSE MerkleReduce(MerkleLevel(hs))

\* Block.calculate_merkle_root
CalculateMerkleRoot(txs) ==
  IF txs = <<>>
  THEN [pre |-> <<>>]
  ELSE MerkleReduce([i \in 1..Len(txs) |-> TxGetHash(txs[i])])

\* Block.verify_block without its Merkle root test
VerifyBlockNoMerkle(b) ==
  /\ \A i \in 1..Len(b.transactions) :
        b.transactions[i].is_coinbase \/ VerifySignature(b.transactions[i])
  /\ BelowTarget(HeaderGetHash(b.header), b.header.n_bits)

\* Block.verify_block
VerifyBlock(b) ==
  /\ b.header.merkle_root = CalculateMerkleRoot(b.transactions)
  /\ \A i \in 1..Len(b.transactions) :
        b.transactions[i].is_coinbase \/ VerifySignature(b.transactions[i])
  /\ BelowTarget(HeaderGetHash(b.header), b.header.n_bits)

(***************************************************************************)
(* src/blockchain.py: Blockchain5470.                                      *)
(***************************************************************************)
GenesisTx ==
  [tx_id |-> "genesis_tx", to |-> "genesis", amount |-> 0,
   timestamp |-> GenesisTime, public_key |-> "genesis_public_key",
   signature |-> NoSignature, is_coinbase |-> TRUE]

\* Blockchain5470._create_genesis_block
GenesisBlock ==
  [header |-> [version |-> 1, prev_hash |-> ZeroHash,
               merkle_root |-> CalculateMerkleRoot(<<GenesisTx>>),
               timestamp |-> GenesisTime, n_bits |-> InitialDifficulty,
               nonce |-> 0, height |-> 0],
   transactions |-> <<GenesisTx>>,
   work |-> GenesisWork]

\* Blockchain5470._create_coinbase_transaction
CoinbaseTransaction(mining_address, now) ==
  [tx_id |-> "coinbase", to |-> mining_address, amount |-> BlockReward5470,
   timestamp |-> now, public_key |-> "coinbase_public_key",
   signature |-> NoSignature, is_coinbase |-> TRUE]

\* Blockchain5470.create_transaction at time now: the transaction is built
\* with public_key "", get_hash() of that is signed, and then signature and
\* public_key are filled in
CreateTransaction(from_address, to_address, amount, private_key_hex, now) ==
  LET transaction == [tx_id |-> "created", to |-> to_address, amount |-> amount,
                      timestamp |-> now, public_key |-> "",
                      signature |-> NoSignature, is_coinbase |-> FALSE]
      message == TxGetHash(transaction)
  IN [transaction EXCEPT !.signature = Sign(private_key_hex, message),
                         !.public_key = VerifyingKey(private_key_hex)]

\* A transfer made by a wallet that fills in public_key first and signs
\* get_hash() afterwards
WalletTransaction(tx_id, to, amount, sk, now) ==
  LET transaction == [tx_id |-> tx_id, to |-> to, amount |-> amount,
                      timestamp |-> now, public_key |-> VerifyingKey(sk),
                      signature |-> NoSignature, is_coinbase |-> FALSE]
  IN [transaction EXCEPT !.signature = Sign(sk, TxGetHash(transaction))]

\* Transactions callers hand to add_transaction_to_mempool: a signed
\* transfer, a transfer that carries the signature of another transfer, and
\* an unsigned transaction with the is_coinbase flag set.
UserTxs ==
  { WalletTransaction("tx1", "bob", 5, "alice_sk", GenesisTime),
    [WalletTransaction("tx2", "carol", 7, "alice_sk", GenesisTime)
       EXCEPT !.signature = Sign("alice_sk", [pre |-> <<"bob", 5, GenesisTime, "alice_pk">>])],
    [tx_id |-> "tx3", to |-> "mallory", amount |-> 1000, timestamp |-> GenesisTime,
     public_key |-> "", signature |-> NoSignature, is_coinbase |-> TRUE] }

\* Transactions a caller gets from create_transaction at time now with the
\* private key of the sender
CreatedTxs(now) == { CreateTransaction("alice", "bob", 5, "alice_sk", now) }

MiningAddress == "mining_address_example"

IdleMiner == [pc |-> "off"]

InitChain5470 ==
  /\ chain = <<GenesisBlock>>
  /\ mempool = <<>>
  /\ difficulty_target = InitialDifficulty
  /\ best_work = 0
  /\ mining = FALSE
  /\ miner = [m \in Miners |-> IdleMiner]

\* Blockchain5470.add_transaction_to_mempool
AddTransactionToMempool(tx) ==
  /\ env < MaxEnv
  /\ env' = env + 1
  /\ IF ~tx.is_coinbase /\ ~VerifySignature(tx)
     THEN UNCHANGED mempool
     ELSE mempool' = Append(mempool, tx)
  /\ UNCHANGED <<clock, chain, difficulty_target, best_work, mining, miner>>
  /\ UNCHANGED notChain5470

\* Blockchain5470.start_mining: sets the flag and starts one more
\* mining_worker thread.
StartMining(m) ==
  /\ miner[m].pc = "off"
  /\ \A k \in Miners : k < m => miner[k].pc # "off"
  /\ env < MaxEnv
  /\ env' = env + 1
  /\ mining' = TRUE
  /\ miner' = [miner EXCEPT ![m] = [pc |-> "loop"]]
  /\ UNCHANGED <<clock, chain, mempool, difficulty_target, best_work>>
  /\ UNCHANGED notChain5470

\* Blockchain5470.stop_mining
StopMining ==
  /\ mining
  /\ env < MaxEnv
  /\ env' = env + 1
  /\ mining' = FALSE
  /\ UNCHANGED <<clock, chain, mempool, difficulty_target, best_work, miner>>
  /\ UNCHANGED notChain5470

\* mining_worker: `while self.mining` is false, the thread ends.
WorkerExit(m) ==
  /\ miner[m].pc = "loop"
  /\ ~mining
  /\ miner' = [miner EXCEPT ![m] = IdleMiner]
  /\ UNCHANGED <<clock, env, chain, mempool, difficulty_target, best_work, mining>>
  /\ UNCHANGED notChain5470

\* mine_block, lines 208-228: snapshot of the mempool, of the tip and of
\* the difficulty target; the candidate header with nonce 0.
MineBlockStart(m) ==
  /\ miner[m].pc = "loop"
  /\ mining
  /\ Len(chain) < MaxChain
  /\ LET transactions == <<CoinbaseTransaction(MiningAddress, clock)>>
                           \o Prefix(mempool, BlockSizeLimit)
         latest_block == Last(chain)
         header == [version |-> 1,
                    prev_hash |-> HeaderGetHash(latest_block.header),
                    merkle_root |-> CalculateMerkleRoot(transactions),
                    timestamp |-> clock,
                    n_bits |-> difficulty_target,
                    nonce |-> 0,
                    height |-> latest_block.header.height + 1]
     IN miner' = [miner EXCEPT ![m] =
                    [pc |-> "target", transactions |-> transactions,
                     latest_work |-> latest_block.work, header |-> header]]
  /\ clock' = clock + 1
  /\ UNCHANGED <<env, chain, mempool, difficulty_target, best_work, mining>>
  /\ UNCHANGED notChain5470

\* mine_block, line 231: target = 2 ** (256 - self.difficulty_target)
MineBlockTarget(m) ==
  /\ miner[m].pc = "target"
  /\ miner' = [miner EXCEPT ![m] =
                 [pc |-> "search", transactions |-> miner[m].transactions,
                  latest_work |-> miner[m].latest_work, header |-> miner[m].header,
                  target_bits |-> difficulty_target]]
  /\ UNCHANGED <<clock, env, chain, mempool, difficulty_target, best_work, mining>>
  /\ UNCHANGED notChain5470

\* Blockchain5470._adjust_difficulty with the decrease not floored at 1
AdjustDifficultyNoFloor(c, d) ==
  IF Len(c) < RetargetWindow
  THEN d
  ELSE LET first == c[Len(c) - RetargetWindow + 1]
           time_diff == Last(c).header.timestamp - first.header.timestamp
       IN IF 2 * time_diff < (RetargetWindow - 1) * BlockTimeTarget
          THEN d + 1
          ELSE IF time_diff > 2 * (RetargetWindow - 1) * BlockTimeTarget
               THEN d - 1
               ELSE d

\* Blockchain5470._adjust_difficulty, on the chain c and the target d
AdjustDifficulty(c, d) ==
  IF Len(c) < RetargetWindow
  THEN d
  ELSE LET first == c[Len(c) - RetargetWindow + 1]
           time_diff == Last(c).header.timestamp - first.header.timestamp
       IN \* avg_block_time = time_diff / 9 against 0.5 and 2 times the target
          IF 2 * time_diff < (RetargetWindow - 1) * BlockTimeTarget
          THEN d + 1
          ELSE IF time_diff > 2 * (RetargetWindow - 1) * BlockTimeTarget
               THEN (IF d - 1 > MinDifficulty THEN d - 1 ELSE MinDifficulty)
               ELSE d

\* Blockchain5470._add_block_to_chain, lines 280-286: verify_block, then
\* under self.lock the append and the assignment of best_work
AddBlockToChain(block) ==
  IF ~VerifyBlock(block)
  THEN UNCHANGED <<chain, best_work>>
  ELSE /\ chain' = Append(chain, block)
       /\ best_work' = block.work

\* mine_block, lines 235-260: one pass of the search loop.  A header below
\* the target is handed to _add_block_to_chain, which after its locked
\* section has released the lock and is inside _adjust_difficulty (pc
\* "adjust"); otherwise the loop goes on unless mining was switched off.
MineBlockTry(m) ==
  /\ miner[m].pc = "search"
  /\ miner[m].header.nonce < MaxNonce
  /\ LET header == [miner[m].header EXCEPT !.nonce = @ + 1]
     IN IF BelowTarget(HeaderGetHash(header), miner[m].target_bits)
        THEN LET block == [header |-> header,
                           transactions |-> miner[m].transactions,
                           work |-> miner[m].latest_work + Pow2(difficulty_target)]
             IN /\ AddBlockToChain(block)
                /\ miner' = [miner EXCEPT ![m] =
                               [pc |-> IF VerifyBlock(block) THEN "adjust" ELSE "evict",
                                transactions |-> miner[m].transactions]]
        ELSE /\ miner' = [miner EXCEPT ![m] =
                            IF mining
                            THEN [miner[m] EXCEPT !.header = header]
                            ELSE [pc |-> "loop"]]
             /\ UNCHANGED <<chain, best_work>>
  /\ UNCHANGED <<clock, env, mempool, mining, difficulty_target>>
  /\ UNCHANGED notChain5470

\* _add_block_to_chain, line 289: _adjust_difficulty, outside self.lock
MineBlockAdjust(m) ==
  /\ miner[m].pc = "adjust"
  /\ difficulty_target' = AdjustDifficulty(chain, difficulty_target)
  /\ miner' = [miner EXCEPT ![m].pc = "evict"]
  /\ UNCHANGED <<clock, env, chain, mempool, best_work, mining>>
  /\ UNCHANGED notChain5470

RECURSIVE RemoveEach(_, _)
\* for tx in txs: if tx in pool: pool.remove(tx)
RemoveEach(pool, txs) ==
  IF txs = <<>> THEN pool ELSE RemoveEach(RemoveFirst(pool, Head(txs)), Tail(txs))

\* mine_block, lines 250-255: the mined transactions leave the mempool
MineBlockEvict(m) ==
  /\ miner[m].pc = "evict"
  /\ mempool' = RemoveEach(mempool, Tail(miner[m].transactions))
  /\ miner' = [miner EXCEPT ![m] = [pc |-> "loop"]]
  /\ UNCHANGED <<clock, env, chain, difficulty_target, best_work, mining>>
  /\ UNCHANGED notChain5470

NextChain5470 ==
  \/ \E tx \in UserTxs : AddTransactionToMempool(tx)
  \/ \E tx \in CreatedTxs(clock) : AddTransactionToMempool(tx)
  \/ \E m \in Miners : StartMining(m)
  \/ StopMining
  \/ \E m \in Miners : WorkerExit(m)
  \/ \E m \in Miners : MineBlockStart(m)
  \/ \E m \in Miners : MineBlockTarget(m)
  \/ \E m \in Miners : MineBlockAdjust(m)
  \/ \E m \in Miners : MineBlockTry(m)
  \/ \E m \in Miners : MineBlockEvict(m)

(***************************************************************************)
(* Blockchain5470 with a single mining worker: start_mining is called      *)
(* once and nothing else runs, so one pass of mining_worker (mine_block     *)
(* from its snapshot to the eviction) is one step.                         *)
(***************************************************************************)
\* Seconds from the start of one pass of mining_worker to the start of the
\* next: the sleep of one second, or a long search
BlockGaps == {1, 3000}

\* The nonce at which the search loop of mine_block (lines 234-238) ends:
\* the least nonce from 1 on whose header hash is below the target; 0 when
\* none of the nonces 1..MaxNonce is
FoundNonce(header, n_bits) ==
  LET Hit(n) == BelowTarget(HeaderGetHash([header EXCEPT !.nonce = n]), n_bits)
  IN IF \E n \in 1..MaxNonce : Hit(n)
     THEN CHOOSE n \in 1..MaxNonce : Hit(n) /\ \A k \in 1..(n - 1) : ~Hit(k)
     ELSE 0

\* mining_worker, one pass: mine_block (lines 208-255) with
\* _add_block_to_chain and _adjust_difficulty (lines 278-308) inside it
WorkerMinesBlock(m, dt) ==
  /\ miner[m].pc = "loop"
  /\ mining
  /\ \A k \in Miners \ {m} : miner[k].pc = "off"
  /\ Len(chain) < SeqMaxChain
  /\ clock' = clock + dt
  /\ LET transactions == <<CoinbaseTransaction(MiningAddress, clock')>>
                           \o Prefix(mempool, BlockSizeLimit)
         latest_block == Last(chain)
         header == [version |-> 1,
                    prev_hash |-> HeaderGetHash(latest_block.header),
                    merkle_root |-> CalculateMerkleRoot(transactions),
                    timestamp |-> clock',
                    n_bits |-> difficulty_target,
                    nonce |-> 0,
                    height |-> latest_block.header.height + 1]
         nonce == FoundNonce(header, difficulty_target)
         block == [header |-> [header EXCEPT !.nonce = nonce],
                   transactions |-> transactions,
                   work |-> latest_block.work + Pow2(difficulty_target)]
     IN /\ nonce # 0
        /\ AddBlockToChain(block)
        /\ difficulty_target' = IF VerifyBlock(block)
                                THEN AdjustDifficulty(chain', difficulty_target)
                                ELSE difficulty_target
        /\ mempool' = RemoveEach(mempool, Tail(transactions))
  /\ UNCHANGED <<env, mining, miner>>
  /\ UNCHANGED notChain5470

NextChainSeq ==
  \/ StartMining(1)
  \/ \E dt \in BlockGaps : WorkerMinesBlock(1, dt)

(***************************************************************************)
(* Blockchain5470 with two mining workers and chains long enough for a     *)
(* retarget: a pass of mining_worker is two steps, the snapshot and the    *)
(* search with everything that follows a hit.                              *)
(***************************************************************************)
\* mine_block, lines 208-231: the candidate and the target of the search
WorkerStartsBlock(m) ==
  /\ miner[m].pc = "loop"
  /\ mining
  /\ Len(chain) < RaceMaxChain
  /\ clock' = clock + 1
  /\ LET transactions == <<CoinbaseTransaction(MiningAddress, clock')>>
                           \o Prefix(mempool, BlockSizeLimit)
         latest_block == Last(chain)
         header == [version |-> 1,
                    prev_hash |-> HeaderGetHash(latest_block.header),
                    merkle_root |-> CalculateMerkleRoot(transactions),
                    timestamp |-> clock',
                    n_bits |-> difficulty_target,
                    nonce |-> 0,
                    height |-> latest_block.header.height + 1]
     IN miner' = [miner EXCEPT ![m] =
                    [pc |-> "search", transactions |-> transactions,
                     latest_work |-> latest_block.work, header |-> header,
                     target_bits |-> difficulty_target]]
  /\ UNCHANGED <<env, chain, mempool, difficulty_target, best_work, mining>>
  /\ UNCHANGED notChain5470

\* mine_block, lines 234-255, with _add_block_to_chain and
\* _adjust_difficulty (lines 278-308): the search up to its hit, the append,
\* the retarget and the eviction
WorkerFinishesBlock(m) ==
  /\ miner[m].pc = "search"
  /\ LET nonce == FoundNonce(miner[m].header, miner[m].target_bits)
         block == [header |-> [miner[m].header EXCEPT !.nonce = nonce],
                   transactions |-> miner[m].transactions,
                   work |-> miner[m].latest_work + Pow2(difficulty_target)]
     IN /\ nonce # 0
        /\ AddBlockToChain(block)
        /\ difficulty_target' = IF VerifyBlock(block)
                                THEN AdjustDifficulty(chain', difficulty_target)
                                ELSE difficulty_target
        /\ mempool' = RemoveEach(mempool, Tail(miner[m].transactions))
  /\ miner' = [miner EXCEPT ![m] = [pc |-> "loop"]]
  /\ UNCHANGED <<clock, env, mining>>
  /\ UNCHANGED notChain5470

NextChainRace ==
  \/ \E m \in Miners : StartMining(m)
  \/ \E m \in Miners : WorkerStartsBlock(m)
  \/ \E m \in Miners : WorkerFinishesBlock(m)

(***************************************************************************)
(* Blockchain5470._adjust_difficulty as a function of the chain and of the *)
(* difficulty target it finds.                                             *)
(***************************************************************************)
\* A chain of n blocks of which _adjust_difficulty reads the timestamps
\* only: the last block is time_diff seconds after the tenth from the end,
\* and the blocks before that one are a day older
TimedChain(n, time_diff) ==
  [i \in 1..n |->
     [header |-> [timestamp |->
        IF i = n THEN GenesisTime + StartDelay + time_diff
        ELSE IF i > n - RetargetWindow THEN GenesisTime + StartDelay
        ELSE GenesisTime]]]

\* Chain lengths asked: one short of the window, the window, one more
RetargetLengths == {RetargetWindow - 1, RetargetWindow, RetargetWindow + 1}

\* Seconds between the first and the last block of the window: around 0,
\* around half the target interval times 9, around twice it times 9
RetargetTimeDiffs ==
  {-1, 0, 9,
   ((RetargetWindow - 1) * BlockTimeTarget) \div 2 - 1,
   ((RetargetWindow - 1) * BlockTimeTarget) \div 2,
   ((RetargetWindow - 1) * BlockTimeTarget) \div 2 + 1,
   2 * (RetargetWindow - 1) * BlockTimeTarget - 1,
   2 * (RetargetWindow - 1) * BlockTimeTarget,
   2 * (RetargetWindow - 1) * BlockTimeTarget + 1,
   StartDelay}

\* Difficulty targets asked: the smallest ones and the initial one
RetargetDifficulties == (1..MaxDifficulty) \cup {InitialDifficulty}

InitRetarget ==
  retarget_query = [len |-> 1, time_diff |-> 0, old |-> InitialDifficulty,
                    new |-> AdjustDifficulty(<<GenesisBlock>>, InitialDifficulty)]

\* _adjust_difficulty() on a chain of n blocks with the target d
QueryRetarget(n, time_diff, d) ==
  /\ retarget_query' = [len |-> n, time_diff |-> time_diff, old |-> d,
                        new |-> AdjustDifficulty(TimedChain(n, time_diff), d)]
  /\ UNCHANGED notRetarget

NextRetarget ==
  \E n \in RetargetLengths : \E time_diff \in RetargetTimeDiffs :
    \E d \in RetargetDifficulties : QueryRetarget(n, time_diff, d)

(***************************************************************************)
(* src/core/node.py: Transaction, Block, CoreNode.                         *)
(* Amounts are counted in coins of 100000000 base units.                   *)
(***************************************************************************)
NodeRewardCoins == 50       \* node.py:137,348
NodeBlockSizeLimit == 10    \* node.py:342
NodePowDigits == 4          \* node.py:364,395
TxHashLength == 64          \* node.py:382

\* Transaction.calculate_hash (node.py): a SHA-256 hex digest, 64 characters
NodeTxCalculateHash(from, to, amount, timestamp, nonce) ==
  [pre |-> <<from, to, amount, timestamp, nonce>>, len |-> TxHashLength]

\* Transaction(...) with __post_init__ filling in tx_hash
NodeTransaction(from, to, amount, timestamp, nonce) ==
  [from_address |-> from, to_address |-> to, amount |-> amount,
   timestamp |-> timestamp, nonce |-> nonce,
   tx_hash |-> NodeTxCalculateHash(from, to, amount, timestamp, nonce)]

\* The "0" * 64 previous hash of the genesis block
NodeZeroHash == [pre |-> <<>>, z |-> 64]

\* Leading zero hex digits of the SHA-256 of a block: 2..4, from a mix of
\* the hashed fields.
NodeZeroDigits(index, txs, previous_hash, timestamp, nonce) ==
  2 + ((nonce + index + timestamp + Len(txs) + previous_hash.z) % 3)

\* Block.calculate_hash (node.py)
NodeCalculateHash(b) ==
  [pre |-> <<b.index, [i \in 1..Len(b.transactions) |-> b.transactions[i].tx_hash],
             b.previous_hash, b.timestamp, b.nonce>>,
   z |-> NodeZeroDigits(b.index, b.transactions, b.previous_hash, b.timestamp, b.nonce)]

\* Block(...) with __post_init__ filling in hash
NodeBlock(index, txs, previous_hash, timestamp, nonce) ==
  LET b == [index |-> index, transactions |-> txs, previous_hash |-> previous_hash,
            timestamp |-> timestamp, nonce |-> nonce]
  IN [index |-> index, transactions |-> txs, previous_hash |-> previous_hash,
      timestamp |-> timestamp, nonce |-> nonce, hash |-> NodeCalculateHash(b)]

\* hash.startswith("0000")
StartsWithZeros(hash) == hash.z >= NodePowDigits

WalletAddress == "5470node"

\* CoreNode.create_genesis_block
NodeGenesisBlock(now) ==
  NodeBlock(0, <<NodeTransaction("genesis", WalletAddress, NodeRewardCoins, now, 0)>>,
            NodeZeroHash, now, 0)

InitCoreNode ==
  /\ blockchain = <<NodeGenesisBlock(clock)>>
  /\ node_mempool = <<>>
  /\ utxo_set = <<>>
  /\ blockchain_file = <<NodeGenesisBlock(clock)>>
  /\ is_running = FALSE
  /\ is_mining = FALSE
  /\ mining_thread = [pc |-> "off"]
  /\ node_last = [op |-> "init", ok |-> TRUE]
  /\ conn = [state |-> "none", malformed |-> 0]
  /\ peer_link = [state |-> "none"]
  /\ sent = <<>>

\* CoreNode.validate_transaction
ValidateTransaction(tx) ==
  /\ tx.amount > 0
  /\ tx.from_address # tx.to_address
  /\ tx.tx_hash.len = TxHashLength

\* CoreNode.validate_block, on the chain bc
ValidateBlock(bc, block) ==
  IF Len(bc) = 0
  THEN block.index = 0
  ELSE /\ block.index = Last(bc).index + 1
       /\ block.previous_hash = Last(bc).hash
       /\ StartsWithZeros(block.hash)

\* CoreNode.update_utxo_set for one transaction: the dictionary u with tx
\* appended to the list of its recipient
UtxoAdd(u, tx) ==
  [a \in (DOMAIN u) \cup {tx.to_address} |->
     IF a = tx.to_address
     THEN (IF a \in DOMAIN u THEN Append(u[a], tx) ELSE <<tx>>)
     ELSE u[a]]

RECURSIVE UpdateUtxoSet(_, _)
\* CoreNode.update_utxo_set
UpdateUtxoSet(u, txs) ==
  IF txs = <<>> THEN u ELSE UpdateUtxoSet(UtxoAdd(u, Head(txs)), Tail(txs))

\* CoreNode.add_block: validate, append, save_blockchain, update_utxo_set
AddBlock(block) ==
  IF ValidateBlock(blockchain, block)
  THEN /\ blockchain' = Append(blockchain, block)
       /\ blockchain_file' = Append(blockchain, block)
       /\ utxo_set' = UpdateUtxoSet(utxo_set, block.transactions)
  ELSE UNCHANGED <<blockchain, blockchain_file, utxo_set>>

\* CoreNode.start_node: the P2P server and the mining_loop thread start
StartNode ==
  /\ ~is_running
  /\ is_running' = TRUE
  /\ mining_thread' = [pc |-> "loop"]
  /\ node_last' = [op |-> "start_node", ok |-> TRUE]
  /\ UNCHANGED <<clock, env, blockchain, node_mempool, utxo_set, blockchain_file, is_mining>>
  /\ UNCHANGED netVars
  /\ UNCHANGED notCoreNode

\* CoreNode.start_mining
NodeStartMining ==
  /\ ~is_mining
  /\ is_mining' = TRUE
  /\ node_last' = [op |-> "start_mining", ok |-> TRUE]
  /\ UNCHANGED <<clock, env, blockchain, node_mempool, utxo_set, blockchain_file,
                 is_running, mining_thread>>
  /\ UNCHANGED netVars
  /\ UNCHANGED notCoreNode

\* CoreNode.stop_mining
NodeStopMining ==
  /\ is_mining
  /\ is_mining' = FALSE
  /\ node_last' = [op |-> "stop_mining", ok |-> TRUE]
  /\ UNCHANGED <<clock, env, blockchain, node_mempool, utxo_set, blockchain_file,
                 is_running, mining_thread>>
  /\ UNCHANGED netVars
  /\ UNCHANGED notCoreNode

\* broadcast_transaction / broadcast_block: the message goes to every socket
\* of self.connections, which holds the outbound connections only
Broadcast(msg) ==
  sent' = IF peer_link.state # "none" THEN Append(sent, msg) ELSE sent

\* Transactions a peer may send in a tx message: a well-formed transfer, a
\* transfer of amount 0 and a transfer to the sender itself.
PeerTxs ==
  { NodeTransaction("alice", "bob", 5, GenesisTime, 0),
    NodeTransaction("alice", "bob", 0, GenesisTime, 1),
    NodeTransaction("carol", "carol", 3, GenesisTime, 0) }

\* process_peer_message, MSG_TX branch
ProcessTxMessage(tx) ==
  /\ is_running
  /\ env < MaxEnv
  /\ env' = env + 1
  /\ IF ValidateTransaction(tx)
     THEN /\ node_mempool' = Append(node_mempool, tx)
          /\ Broadcast([command |-> "tx", id |-> tx.tx_hash])
     ELSE UNCHANGED <<node_mempool, sent>>
  /\ node_last' = [op |-> "tx", ok |-> ValidateTransaction(tx)]
  /\ UNCHANGED <<clock, blockchain, utxo_set, blockchain_file, is_running, is_mining,
                 mining_thread, conn, peer_link>>
  /\ UNCHANGED notCoreNode

\* The coinbase transaction a mining node puts first in its block
NodeCoinbase(to, now) == NodeTransaction("coinbase", to, NodeRewardCoins, now, 0)

\* The least nonce in 0..MaxNonce whose block hash starts with "0000"
MinedNonce(index, txs, previous_hash, timestamp) ==
  CHOOSE n \in 0..MaxNonce :
    /\ NodeZeroDigits(index, txs, previous_hash, timestamp, n) >= NodePowDigits
    /\ \A k \in 0..(n - 1) :
          NodeZeroDigits(index, txs, previous_hash, timestamp, k) < NodePowDigits

\* Bodies of the blocks a peer may announce
PeerBodies(now) ==
  { <<NodeCoinbase("peer", now)>>,
    <<NodeCoinbase("peer", now), NodeTransaction("alice", "bob", 5, GenesisTime, 0)>> }

\* Blocks a peer may send in a blocks message: a block mined on the
\* receiver's tip, the same block unmined (nonce 0), a block mined on the
\* receiver's genesis block, and a block on the tip whose declared hash is
\* not the hash of its fields.
PeerBlocks(bc, now) ==
  UNION { { NodeBlock(Len(bc), body, Last(bc).hash, now,
                      MinedNonce(Len(bc), body, Last(bc).hash, now)),
            NodeBlock(Len(bc), body, Last(bc).hash, now, 0),
            NodeBlock(1, body, bc[1].hash, now,
                      MinedNonce(1, body, bc[1].hash, now)),
            [NodeBlock(Len(bc), body, Last(bc).hash, now, 0)
               EXCEPT !.hash = [pre |-> <<>>, z |-> NodePowDigits]] }
          : body \in PeerBodies(now) }

\* process_peer_message, MSG_BLOCKS branch, for a message with one block
ProcessBlocksMessage(block) ==
  /\ is_running
  /\ env < MaxEnv
  /\ env' = env + 1
  /\ AddBlock(block)
  /\ node_last' = [op |-> "peer_block", ok |-> ValidateBlock(blockchain, block)]
  /\ UNCHANGED <<clock, node_mempool, is_running, is_mining, mining_thread>>
  /\ UNCHANGED netVars
  /\ UNCHANGED notCoreNode

\* mining_loop and mine_block, lines 323-361: the candidate on the tip
NodeMineStart ==
  /\ mining_thread.pc = "loop"
  /\ is_running /\ is_mining
  /\ node_mempool # <<>>
  /\ Len(blockchain) < MaxChain
  /\ LET selected_txs == Prefix(node_mempool, NodeBlockSizeLimit)
         new_block == NodeBlock(Len(blockchain),
                                <<NodeCoinbase(WalletAddress, clock)>> \o selected_txs,
                                Last(blockchain).hash, clock, 0)
     IN mining_thread' = [pc |-> "pow", selected_txs |-> selected_txs,
                          new_block |-> new_block]
  /\ clock' = clock + 1
  /\ node_last' = [op |-> "mining", ok |-> TRUE]
  /\ UNCHANGED <<env, blockchain, node_mempool, utxo_set, blockchain_file,
                 is_running, is_mining>>
  /\ UNCHANGED netVars
  /\ UNCHANGED notCoreNode

\* mine_block, lines 364-367: one pass of the proof-of-work loop
NodeMinePow ==
  /\ mining_thread.pc = "pow"
  /\ IF StartsWithZeros(mining_thread.new_block.hash)
     THEN mining_thread' = [mining_thread EXCEPT !.pc = "mined"]
     ELSE /\ mining_thread.new_block.nonce < MaxNonce
          /\ LET b == mining_thread.new_block
             IN mining_thread' =
                  [mining_thread EXCEPT !.new_block =
                     NodeBlock(b.index, b.transactions, b.previous_hash,
                               b.timestamp, b.nonce + 1)]
  /\ node_last' = [op |-> "mining", ok |-> TRUE]
  /\ UNCHANGED <<clock, env, blockchain, node_mempool, utxo_set, blockchain_file,
                 is_running, is_mining>>
  /\ UNCHANGED netVars
  /\ UNCHANGED notCoreNode

\* mine_block, lines 369-374, and mining_loop, lines 327-330: the mined
\* transactions leave the mempool, then add_block and broadcast_block
NodeMineSubmit ==
  /\ mining_thread.pc = "mined"
  /\ node_mempool' = RemoveEach(node_mempool, mining_thread.selected_txs)
  /\ AddBlock(mining_thread.new_block)
  /\ node_last' = [op |-> "mined_block",
                   ok |-> ValidateBlock(blockchain, mining_thread.new_block)]
  /\ Broadcast([command |-> "blocks", id |-> mining_thread.new_block.hash])
  /\ mining_thread' = [pc |-> "loop"]
  /\ UNCHANGED <<clock, env, is_running, is_mining, conn, peer_link>>
  /\ UNCHANGED notCoreNode

\* discover_peers and connect_to_peer: the socket connects, the version
\* message with the own best height is sent and the connection registered
ConnectToPeer ==
  /\ is_running
  /\ peer_link.state = "none"
  /\ peer_link' = [state |-> "version_sent"]
  /\ sent' = Append(sent, [command |-> "version", best_height |-> Len(blockchain) - 1])
  /\ node_last' = [op |-> "connect", ok |-> TRUE]
  /\ UNCHANGED <<clock, env, blockchain, node_mempool, utxo_set, blockchain_file,
                 is_running, is_mining, mining_thread, conn>>
  /\ UNCHANGED notCoreNode

\* The peer, a CoreNode whose chain is the node's chain and ahead more
\* blocks, runs process_peer_message, MSG_VERSION branch: it answers with a
\* verack that carries its own best height
PeerSendsVerack(ahead) ==
  /\ peer_link.state = "version_sent"
  /\ peer_link' = [state |-> "verack_sent", best_height |-> Len(blockchain) - 1 + ahead]
  /\ UNCHANGED <<clock, env, nodeVars, conn, sent>>
  /\ UNCHANGED notCoreNode

\* handle_peer_connection on the outbound socket and process_peer_message
\* for the verack: no branch matches the command
ProcessVerackMessage ==
  /\ is_running
  /\ peer_link.state = "verack_sent"
  /\ peer_link' = [peer_link EXCEPT !.state = "done"]
  /\ node_last' = [op |-> "verack", ok |-> TRUE]
  /\ UNCHANGED <<clock, env, blockchain, node_mempool, utxo_set, blockchain_file,
                 is_running, is_mining, mining_thread, conn, sent>>
  /\ UNCHANGED notCoreNode

NextCoreNode ==
  \/ StartNode
  \/ NodeStartMining
  \/ NodeStopMining
  \/ \E tx \in PeerTxs : ProcessTxMessage(tx)
  \/ \E block \in PeerBlocks(blockchain, clock) : ProcessBlocksMessage(block)
  \/ NodeMineStart
  \/ NodeMinePow
  \/ NodeMineSubmit
  \/ ConnectToPeer
  \/ \E ahead \in 1..MaxAhead : PeerSendsVerack(ahead)
  \/ ProcessVerackMessage

\* The process ends, at any point of any thread, and is started again:
\* main (lines 512-515) constructs CoreNode, whose __init__ starts from an
\* empty self.blockchain, so that create_genesis_block makes a new genesis
\* block and save_blockchain writes that one-block chain over
\* blockchain.json; load_blockchain then reads the file just written.
\* Nothing fills self.utxo_set.
NodeRestart ==
  /\ env < MaxEnv
  /\ env' = env + 1
  /\ clock' = clock + 1
  /\ blockchain_file' = <<NodeGenesisBlock(clock')>>
  /\ blockchain' = blockchain_file'
  /\ node_mempool' = <<>>
  /\ utxo_set' = <<>>
  /\ is_running' = FALSE
  /\ is_mining' = FALSE
  /\ mining_thread' = [pc |-> "off"]
  /\ node_last' = [op |-> "restart", ok |-> TRUE]
  /\ conn' = [state |-> "none", malformed |-> 0]
  /\ peer_link' = [state |-> "none"]
  /\ UNCHANGED sent
  /\ UNCHANGED notCoreNode

NextCoreNodeRestart ==
  \/ StartNode
  \/ NodeStartMining
  \/ NodeStopMining
  \/ \E tx \in PeerTxs : ProcessTxMessage(tx)
  \/ \E block \in PeerBlocks(blockchain, clock) : ProcessBlocksMessage(block)
  \/ NodeMineStart
  \/ NodeMinePow
  \/ NodeMineSubmit
  \/ NodeRestart

(***************************************************************************)
(* src/core/node.py: one inbound connection, from accept in                *)
(* start_p2p_server to the end of its handle_peer_connection thread.       *)
(***************************************************************************)
\* start_p2p_server: accept, and the handle_peer_connection thread starts
AcceptPeer ==
  /\ is_running
  /\ conn.state = "none"
  /\ conn' = [state |-> "open", malformed |-> 0]
  /\ node_last' = [op |-> "accept", ok |-> TRUE]
  /\ UNCHANGED <<clock, env, blockchain, node_mempool, utxo_set, blockchain_file,
                 is_running, is_mining, mining_thread, peer_link, sent>>
  /\ UNCHANGED notCoreNode

\* handle_peer_connection: recv returns b"", the loop ends, the socket closes
PeerCloses ==
  /\ conn.state = "open"
  /\ conn' = [conn EXCEPT !.state = "closed"]
  /\ node_last' = [op |-> "peer_closed", ok |-> TRUE]
  /\ UNCHANGED <<clock, env, blockchain, node_mempool, utxo_set, blockchain_file,
                 is_running, is_mining, mining_thread, peer_link, sent>>
  /\ UNCHANGED notCoreNode

\* handle_peer_connection: the bytes received do not unpickle, parse_message
\* returns None and the loop goes on to the next recv
RecvMalformed ==
  /\ is_running
  /\ conn.state = "open"
  /\ conn.malformed < MalformedRun
  /\ conn' = [conn EXCEPT !.malformed = conn.malformed + 1]
  /\ node_last' = [op |-> "malformed", ok |-> FALSE]
  /\ UNCHANGED <<clock, env, blockchain, node_mempool, utxo_set, blockchain_file,
                 is_running, is_mining, mining_thread, peer_link, sent>>
  /\ UNCHANGED notCoreNode

\* process_peer_message for a message whose command no branch matches
RecvUnknown ==
  /\ is_running
  /\ conn.state = "open"
  /\ conn' = [conn EXCEPT !.malformed = 0]
  /\ node_last' = [op |-> "unknown", ok |-> FALSE]
  /\ UNCHANGED <<clock, env, blockchain, node_mempool, utxo_set, blockchain_file,
                 is_running, is_mining, mining_thread, peer_link, sent>>
  /\ UNCHANGED notCoreNode

\* process_peer_message, MSG_TX branch, for a payload whose transaction
\* lacks a field: Transaction(**tx_data) raises, handle_peer_connection
\* catches it outside its loop and closes the socket
RecvBadTx ==
  /\ is_running
  /\ conn.state = "open"
  /\ conn' = [state |-> "closed", malformed |-> 0]
  /\ node_last' = [op |-> "bad_tx", ok |-> FALSE]
  /\ UNCHANGED <<clock, env, blockchain, node_mempool, utxo_set, blockchain_file,
                 is_running, is_mining, mining_thread, peer_link, sent>>
  /\ UNCHANGED notCoreNode

\* process_peer_message, MSG_BLOCKS branch, for a payload of two entries,
\* the block given and an entry without "index": the first entry goes
\* through validate_block and add_block, the second raises KeyError and
\* the socket is closed
RecvBadBlocks(block) ==
  /\ is_running
  /\ conn.state = "open"
  /\ AddBlock(block)
  /\ conn' = [state |-> "closed", malformed |-> 0]
  /\ node_last' = [op |-> "bad_blocks", ok |-> FALSE]
  /\ UNCHANGED <<clock, env, node_mempool, is_running, is_mining, mining_thread,
                 peer_link, sent>>
  /\ UNCHANGED notCoreNode

NextPeerConn ==
  \/ StartNode
  \/ AcceptPeer
  \/ PeerCloses
  \/ RecvMalformed
  \/ RecvUnknown
  \/ RecvBadTx
  \/ \E block \in PeerBlocks(blockchain, clock) : RecvBadBlocks(block)
  \/ \E block \in PeerBlocks(blockchain, clock) : ProcessBlocksMessage(block)

(***************************************************************************)
(* src/blockchain_5470_synced_ai_zk.py: Transaction, Block, Blockchain and *)
(* the HTTP handlers that reach them.  The server is a single-threaded     *)
(* HTTPServer (thread 0); the _mining_loop thread is thread 1.             *)
(* config.json sets base_unit to 1000 (the default 10 ** 8 makes the       *)
(* reward exceed 32-bit integers); every other setting has its default.    *)
(***************************************************************************)
BaseUnit == 1000            \* blockchain_5470_synced_ai_zk.py:35
ChainId == 5470             \* :36
BlockRewardCoins == 50      \* :38
CommissionPerMille == 2     \* :39
PowDifficulty == 4          \* :40
HalvingInterval == 210000   \* :354
MaxHalvings == 64           \* :355

\* BLOCK_REWARD_INITIAL
BlockRewardInitial == BlockRewardCoins * BaseUnit

\* Whether eth_keys can be imported (lines 16-19).  Without it sign stores
\* "nosig" and verify_signature accepts everything.
EthKeys == TRUE

MinerAddress == "0xFc1C65b62d480f388F0Bc3bd34f3c3647aA59C18"

ZkLoopThreads == {1}
ZkThreads == {0} \cup ZkLoopThreads

\* dict.get(k, 0)
Get(d, k) == IF k \in DOMAIN d THEN d[k] ELSE 0

\* d[k] = v
Put(d, k, v) == [a \in (DOMAIN d) \cup {k} |-> IF a = k THEN v ELSE d[a]]

\* Transaction(...): signature is "valid" when it recovers from_address over
\* the transaction's hash, "forged" otherwise
ZkTransaction(from, to, amount, nonce, timestamp, data, chain_id, signature) ==
  [from_address |-> from, to_address |-> to, amount |-> amount, nonce |-> nonce,
   timestamp |-> timestamp, data |-> data, chain_id |-> chain_id,
   signature |-> signature]

\* Transaction.verify_signature
ZkVerifySignature(tx) == IF EthKeys THEN tx.signature = "valid" ELSE TRUE

\* int(tx.amount * COMMISSION_RATE), for amounts >= 0
Fee(amount) == (amount * CommissionPerMille) \div 1000

\* The "0" * 64 previous hash of the genesis block
ZkZeroHash == [pre |-> <<>>, z |-> 64]

\* Leading zero hex digits of the SHA3-256 of a block: 2..4, from a mix of
\* the hashed fields.
ZkZeroDigits(index, txs, timestamp, previous_hash, nonce) ==
  2 + ((nonce + index + timestamp + Len(txs) + previous_hash.z) % 3)

\* Block.calculate_hash
ZkCalculateHash(b) ==
  [pre |-> <<b.index, b.transactions, b.timestamp, b.previous_hash, b.nonce>>,
   z |-> ZkZeroDigits(b.index, b.transactions, b.timestamp, b.previous_hash, b.nonce)]

\* Block(index, transactions, previous_hash) at time now: nonce 0 and the
\* hash of the fields
ZkBlock(index, txs, previous_hash, now) ==
  LET b == [index |-> index, transactions |-> txs, previous_hash |-> previous_hash,
            timestamp |-> now, nonce |-> 0]
  IN [index |-> index, transactions |-> txs, previous_hash |-> previous_hash,
      timestamp |-> now, nonce |-> 0, hash |-> ZkCalculateHash(b)]

\* hash.startswith("0" * POW_DIFFICULTY)
ZkStartsWithZeros(hash) == hash.z >= PowDifficulty

\* Blockchain.create_genesis_block
ZkGenesisBlock(now) ==
  ZkBlock(0, <<ZkTransaction("genesis", MinerAddress, 0, 0, now, "", ChainId, "none")>>,
          ZkZeroHash, now)

\* x >> n for x >= 0
RECURSIVE ShiftRight(_, _)
ShiftRight(x, n) == IF n = 0 \/ x = 0 THEN x ELSE ShiftRight(x \div 2, n - 1)

\* Blockchain.get_block_reward with the halving one block early
GetBlockRewardEarly(height) ==
  LET halvings == (height + 1) \div HalvingInterval
  IN IF halvings < MaxHalvings THEN ShiftRight(BlockRewardInitial, halvings) ELSE 0

\* Blockchain.get_block_reward
GetBlockReward(height) ==
  LET halvings == height \div HalvingInterval
  IN IF halvings < MaxHalvings THEN ShiftRight(BlockRewardInitial, halvings) ELSE 0

\* Whether the transaction skips every check of is_valid_transaction
Privileged(tx) == tx.from_address \in {"system", "genesis"}

\* Blockchain.is_valid_transaction with a nonce test that only turns away
\* nonces below the expected one
IsValidTransactionStaleOnly(tx, bal, non, score_ok) ==
  IF Privileged(tx) THEN TRUE
  ELSE /\ tx.chain_id = ChainId
       /\ ZkVerifySignature(tx)
       /\ ~(Get(bal, tx.from_address) < tx.amount + Fee(tx.amount))
       /\ ~(tx.nonce < Get(non, tx.from_address))
       /\ score_ok

\* Blockchain.is_valid_transaction against the balances bal and nonces non;
\* score_ok is whether ai_score_tx(tx) < ANOMALY_THRESHOLD
IsValidTransaction(tx, bal, non, score_ok) ==
  IF Privileged(tx) THEN TRUE
  ELSE /\ tx.chain_id = ChainId
       /\ ZkVerifySignature(tx)
       /\ ~(Get(bal, tx.from_address) < tx.amount + Fee(tx.amount))
       /\ ~(tx.nonce # Get(non, tx.from_address))
       /\ score_ok

\* add_block without the fee credit of line 399
ApplyTxNoFeeCredit(st, tx) ==
  IF tx.from_address \in {"system", "genesis"}
  THEN [st EXCEPT !.bal = Put(st.bal, tx.to_address, Get(st.bal, tx.to_address) + tx.amount)]
  ELSE LET fee == Fee(tx.amount)
           b1 == Put(st.bal, tx.from_address, Get(st.bal, tx.from_address) - tx.amount - fee)
           b2 == Put(b1, tx.to_address, Get(b1, tx.to_address) + tx.amount)
       IN [bal |-> b2,
           non |-> Put(st.non, tx.from_address, Get(st.non, tx.from_address) + 1)]

\* add_block with the fee of line 397 not taken from the sender
ApplyTxFeeNotDebited(st, tx) ==
  IF tx.from_address \in {"system", "genesis"}
  THEN [st EXCEPT !.bal = Put(st.bal, tx.to_address, Get(st.bal, tx.to_address) + tx.amount)]
  ELSE LET fee == Fee(tx.amount)
           b1 == Put(st.bal, tx.from_address, Get(st.bal, tx.from_address) - tx.amount)
           b2 == Put(b1, tx.to_address, Get(b1, tx.to_address) + tx.amount)
           b3 == Put(b2, MinerAddress, Get(b2, MinerAddress) + fee)
       IN [bal |-> b3,
           non |-> Put(st.non, tx.from_address, Get(st.non, tx.from_address) + 1)]

\* add_block, lines 391-400: one transaction applied to st = [bal, non]
ApplyTx(st, tx) ==
  IF Privileged(tx)
  THEN [st EXCEPT !.bal = Put(st.bal, tx.to_address, Get(st.bal, tx.to_address) + tx.amount)]
  ELSE LET fee == Fee(tx.amount)
           b1 == Put(st.bal, tx.from_address, Get(st.bal, tx.from_address) - tx.amount - fee)
           b2 == Put(b1, tx.to_address, Get(b1, tx.to_address) + tx.amount)
           b3 == Put(b2, MinerAddress, Get(b2, MinerAddress) + fee)
       IN [bal |-> b3,
           non |-> Put(st.non, tx.from_address, Get(st.non, tx.from_address) + 1)]

RECURSIVE ApplyTxs(_, _)
\* add_block, lines 388-400: the loop over block.transactions
ApplyTxs(st, txs) ==
  IF txs = <<>> THEN st ELSE ApplyTxs(ApplyTx(st, Head(txs)), Tail(txs))

\* _recompute_balances_and_nonces, lines 335-342: one transaction, on the
\* tables st = [bal, non] built so far
RecomputeTx(st, tx) ==
  IF tx.from_address \in {"system", "genesis"}
  THEN [bal |-> Put(st.bal, tx.to_address, Get(st.bal, tx.to_address) + tx.amount),
        non |-> st.non]
  ELSE LET fee == Fee(tx.amount)
           from_bal == Put(st.bal, tx.from_address,
                           Get(st.bal, tx.from_address) - tx.amount - fee)
           to_bal == Put(from_bal, tx.to_address, Get(from_bal, tx.to_address) + tx.amount)
           miner_bal == Put(to_bal, MinerAddress, Get(to_bal, MinerAddress) + fee)
       IN [bal |-> miner_bal,
           non |-> Put(st.non, tx.from_address, Get(st.non, tx.from_address) + 1)]

RECURSIVE RecomputeBlock(_, _)
\* _recompute_balances_and_nonces, line 330: the transactions of one block
RecomputeBlock(st, txs) ==
  IF txs = <<>> THEN st ELSE RecomputeBlock(RecomputeTx(st, Head(txs)), Tail(txs))

RECURSIVE RecomputeFrom(_, _, _)
\* _recompute_balances_and_nonces, line 329: the blocks c[k..]
RecomputeFrom(st, c, k) ==
  IF k > Len(c) THEN st
  ELSE RecomputeFrom(RecomputeBlock(st, c[k].transactions), c, k + 1)

\* Blockchain._recompute_balances_and_nonces on the chain c
RecomputeBalancesAndNonces(c) == RecomputeFrom([bal |-> <<>>, non |-> <<>>], c, 1)

\* The three tests of add_block, lines 383-386
ZkBlockAccepted(c, block) ==
  /\ block.previous_hash = Last(c).hash
  /\ block.hash = ZkCalculateHash(block)
  /\ ZkStartsWithZeros(block.hash)

\* Blockchain.add_block
ZkAddBlock(block) ==
  IF ZkBlockAccepted(zk_chain, block)
  THEN LET st == ApplyTxs([bal |-> balances, non |-> nonces], block.transactions)
       IN /\ zk_chain' = Append(zk_chain, block)
          /\ balances' = st.bal
          /\ nonces' = st.non
  ELSE UNCHANGED <<zk_chain, balances, nonces>>

\* No transaction: the request that ran last carried none
NoTx == ZkTransaction("", "", 0, 0, 0, "", 0, "none")

\* Blockchain.__init__ without a chain file: create_genesis_block, then
\* _recompute_balances_and_nonces over the one-block chain
InitLedger ==
  /\ zk_chain = <<ZkGenesisBlock(clock)>>
  /\ balances = ApplyTxs([bal |-> <<>>, non |-> <<>>],
                         ZkGenesisBlock(clock).transactions).bal
  /\ nonces = <<>>
  /\ pending_transactions = <<>>
  /\ zk_is_mining = FALSE
  /\ zk_mining_stop = FALSE
  /\ zk_thread = [t \in ZkThreads |-> [pc |-> IF t = 0 THEN "idle" ELSE "off"]]
  /\ zk_last = [op |-> "init", ok |-> TRUE, tx |-> NoTx]

\* Transactions a client may post to /tx with the timestamp field given.
\* From the miner's address to bob: a well-formed one with nonce 0, one with
\* nonce 2, one whose signature does not verify, one for another chain id.
\* And one without a signature that names "system" as its sender.
SubmitTxs ==
  { ZkTransaction(MinerAddress, "bob", 49900, 0, GenesisTime, "", ChainId, "valid"),
    ZkTransaction(MinerAddress, "bob", 49900, 2, GenesisTime, "", ChainId, "valid"),
    ZkTransaction(MinerAddress, "bob", 49900, 0, GenesisTime, "", ChainId, "forged"),
    ZkTransaction(MinerAddress, "bob", 49900, 0, GenesisTime, "", 1, "valid"),
    ZkTransaction("system", "mallory", 1000000, 0, GenesisTime, "", ChainId, "none") }

\* do_POST, path /tx
ZkSubmitTx(tx, score_ok) ==
  /\ zk_thread[0].pc = "idle"
  /\ env < MaxEnv
  /\ env' = env + 1
  /\ IF IsValidTransaction(tx, balances, nonces, score_ok)
     THEN pending_transactions' = Append(pending_transactions, tx)
     ELSE UNCHANGED pending_transactions
  /\ zk_last' = [op |-> "tx", ok |-> IsValidTransaction(tx, balances, nonces, score_ok),
                 tx |-> tx]
  /\ UNCHANGED <<clock, zk_chain, balances, nonces, zk_is_mining, zk_mining_stop,
                 zk_thread>>
  /\ UNCHANGED notLedger

\* do_POST, path /api/wallet/send, amount in base units.  With eth_keys
\* installed tx.sign raises on the 20-byte MINER_PRIV_HEX before anything
\* is changed.
ZkWalletSend(recipient, amount, score_ok) ==
  /\ zk_thread[0].pc = "idle"
  /\ env < MaxEnv
  /\ env' = env + 1
  /\ LET tx == ZkTransaction(MinerAddress, recipient, amount, Get(nonces, MinerAddress),
                             clock, "", ChainId, "valid")
         ok == ~EthKeys /\ IsValidTransaction(tx, balances, nonces, score_ok)
     IN /\ IF ok
           THEN pending_transactions' = Append(pending_transactions, tx)
           ELSE UNCHANGED pending_transactions
        /\ zk_last' = [op |-> "send", ok |-> ok, tx |-> tx]
  /\ UNCHANGED <<clock, zk_chain, balances, nonces, zk_is_mining, zk_mining_stop,
                 zk_thread>>
  /\ UNCHANGED notLedger

\* start_mining: a new _mining_loop thread unless _is_mining
ZkStartMining ==
  /\ zk_thread[0].pc = "idle"
  /\ ~zk_is_mining
  /\ \E t \in ZkLoopThreads :
       /\ zk_thread[t].pc = "off"
       /\ \A u \in ZkLoopThreads : u < t => zk_thread[u].pc # "off"
       /\ zk_thread' = [zk_thread EXCEPT ![t] = [pc |-> "wait"]]
  /\ zk_mining_stop' = FALSE
  /\ zk_is_mining' = TRUE
  /\ zk_last' = [op |-> "start_mining", ok |-> TRUE, tx |-> NoTx]
  /\ UNCHANGED <<clock, env, zk_chain, balances, nonces, pending_transactions>>
  /\ UNCHANGED notLedger

\* stop_mining
ZkStopMining ==
  /\ zk_thread[0].pc = "idle"
  /\ zk_is_mining
  /\ zk_mining_stop' = TRUE
  /\ zk_is_mining' = FALSE
  /\ zk_last' = [op |-> "stop_mining", ok |-> TRUE, tx |-> NoTx]
  /\ UNCHANGED <<clock, env, zk_chain, balances, nonces, pending_transactions,
                 zk_thread>>
  /\ UNCHANGED notLedger

\* _mining_loop: _mining_stop.wait returns True and the thread ends
ZkLoopExit(t) ==
  /\ zk_thread[t].pc = "wait"
  /\ zk_mining_stop
  /\ zk_thread' = [zk_thread EXCEPT ![t] = [pc |-> "off"]]
  /\ zk_last' = [op |-> "loop_exit", ok |-> TRUE, tx |-> NoTx]
  /\ UNCHANGED <<clock, env, zk_chain, balances, nonces, pending_transactions,
                 zk_is_mining, zk_mining_stop>>
  /\ UNCHANGED notLedger

\* mine_once, lines 413-417, entered from do_POST /api/mining/reward
\* (thread 0) or from _mining_loop after a wait that timed out
ZkMineSnapshot(t) ==
  /\ IF t = 0 THEN zk_thread[t].pc = "idle"
              ELSE zk_thread[t].pc = "wait" /\ ~zk_mining_stop
  /\ Len(zk_chain) < MaxChain
  /\ LET prev == Last(zk_chain)
         idx == prev.index + 1
         reward == GetBlockReward(idx)
         reward_tx == ZkTransaction("system", MinerAddress, reward, 0, clock, "",
                                    ChainId, "none")
     IN zk_thread' = [zk_thread EXCEPT ![t] =
                        [pc |-> "clear", prev |-> prev, idx |-> idx, reward |-> reward,
                         txs |-> <<reward_tx>> \o pending_transactions]]
  /\ clock' = clock + 1
  /\ zk_last' = [op |-> "mining", ok |-> TRUE, tx |-> NoTx]
  /\ UNCHANGED <<env, zk_chain, balances, nonces, pending_transactions, zk_is_mining,
                 zk_mining_stop>>
  /\ UNCHANGED notLedger

\* mine_once, lines 418-419: the pool is emptied and the candidate built
ZkMineClear(t) ==
  /\ zk_thread[t].pc = "clear"
  /\ pending_transactions' = <<>>
  /\ zk_thread' = [zk_thread EXCEPT ![t] =
                     [pc |-> "pow", reward |-> zk_thread[t].reward,
                      newb |-> ZkBlock(zk_thread[t].idx, zk_thread[t].txs,
                                       zk_thread[t].prev.hash, clock)]]
  /\ zk_last' = [op |-> "mining", ok |-> TRUE, tx |-> NoTx]
  /\ UNCHANGED <<clock, env, zk_chain, balances, nonces, zk_is_mining, zk_mining_stop>>
  /\ UNCHANGED notLedger

\* proof_of_work: one pass of the loop
ZkProofOfWork(t) ==
  /\ zk_thread[t].pc = "pow"
  /\ LET b == zk_thread[t].newb
         h == ZkCalculateHash(b)
     IN IF ZkStartsWithZeros(h)
        THEN zk_thread' = [zk_thread EXCEPT ![t].pc = "add", ![t].newb.hash = h]
        ELSE /\ b.nonce < MaxNonce
             /\ zk_thread' = [zk_thread EXCEPT ![t].newb.hash = h,
                                               ![t].newb.nonce = b.nonce + 1]
  /\ zk_last' = [op |-> "mining", ok |-> TRUE, tx |-> NoTx]
  /\ UNCHANGED <<clock, env, zk_chain, balances, nonces, pending_transactions,
                 zk_is_mining, zk_mining_stop>>
  /\ UNCHANGED notLedger

\* mine_once, lines 421-422: add_block, its result dropped, and the return
\* to the handler or to the wait of _mining_loop
ZkMineAdd(t) ==
  /\ zk_thread[t].pc = "add"
  /\ ZkAddBlock(zk_thread[t].newb)
  /\ zk_thread' = [zk_thread EXCEPT ![t] = [pc |-> IF t = 0 THEN "idle" ELSE "wait"]]
  /\ zk_last' = [op |-> "mined_block",
                 ok |-> ZkBlockAccepted(zk_chain, zk_thread[t].newb), tx |-> NoTx]
  /\ UNCHANGED <<clock, env, pending_transactions, zk_is_mining, zk_mining_stop>>
  /\ UNCHANGED notLedger

NextLedger ==
  \/ \E tx \in SubmitTxs : \E score_ok \in BOOLEAN : ZkSubmitTx(tx, score_ok)
  \/ \E score_ok \in BOOLEAN : ZkWalletSend("bob", 49900, score_ok)
  \/ ZkStartMining
  \/ ZkStopMining
  \/ \E t \in ZkLoopThreads : ZkLoopExit(t)
  \/ \E t \in ZkThreads : ZkMineSnapshot(t)
  \/ \E t \in ZkThreads : ZkMineClear(t)
  \/ \E t \in ZkThreads : ZkProofOfWork(t)
  \/ \E t \in ZkThreads : ZkMineAdd(t)

(***************************************************************************)
(* Blockchain.get_block_reward as a pure function of the height.           *)
(***************************************************************************)
\* Heights asked: the first two and the last height of each halving period
RewardHeights ==
  {k * HalvingInterval + d : k \in 0..MaxEra, d \in {0, 1, HalvingInterval - 1}}

InitReward == reward_query = [height |-> 0, reward |-> GetBlockReward(0)]

\* blockchain.get_block_reward(height)
QueryReward(height) ==
  /\ reward_query' = [height |-> height, reward |-> GetBlockReward(height)]
  /\ UNCHANGED notReward

NextReward == \E height \in RewardHeights : QueryReward(height)

(***************************************************************************)
(* src/core/blockchain.py: Transaction, Block, RealBlockchain, driven by   *)
(* the JSON-RPC handler of src/core/rpc_server.py (thread 0) and by the    *)
(* _mining_loop threads that start_mining spawns.                          *)
(***************************************************************************)
RealLoopThreads == 1..MaxMiners
RealThreads == {0} \cup RealLoopThreads

\* The tx_hash field of a Transaction that was neither signed nor pooled: ""
EmptyTxHash == [pre |-> <<>>]

\* Transaction(from_address, to_address, amount, timestamp)
RealTransaction(from, to, amount, timestamp) ==
  [from_address |-> from, to_address |-> to, amount |-> amount,
   timestamp |-> timestamp, tx_hash |-> EmptyTxHash]

\* Transaction.calculate_hash
RealTxCalculateHash(tx) ==
  [pre |-> <<tx.from_address, tx.to_address, tx.amount, tx.timestamp>>]

\* Transaction.sign_transaction: sets tx_hash
SignTransaction(tx) == [tx EXCEPT !.tx_hash = RealTxCalculateHash(tx)]

\* Block.calculate_merkle_root: "0" * 64 without transactions, else the
\* pairwise reduction of the tx_hash fields
RealCalculateMerkleRoot(txs) ==
  IF txs = <<>>
  THEN [pre |-> <<>>]
  ELSE MerkleReduce([i \in 1..Len(txs) |-> txs[i].tx_hash])

\* Leading zero hex digits of the SHA-256 of a block: 2..4, from a mix of
\* the hashed fields.
RealZeroDigits(index, timestamp, previous_hash, nonce) ==
  2 + ((nonce + index + timestamp + previous_hash.z) % 3)

\* Block.calculate_hash
RealCalculateHash(b) ==
  [pre |-> <<b.index, b.timestamp, b.previous_hash, b.merkle_root, b.nonce,
             b.difficulty>>,
   z |-> RealZeroDigits(b.index, b.timestamp, b.previous_hash, b.nonce)]

\* hash.startswith("0" * difficulty)
RealStartsWith(hash, difficulty) == hash.z >= difficulty

\* Block(index, timestamp, transactions, previous_hash, difficulty) at the
\* entry of mine_block, line 95: nonce 0, hash "", the Merkle root computed
RealBlock(index, timestamp, txs, previous_hash, difficulty) ==
  [index |-> index, timestamp |-> timestamp, transactions |-> txs,
   previous_hash |-> previous_hash, nonce |-> 0,
   hash |-> [pre |-> <<>>, z |-> 0],
   merkle_root |-> RealCalculateMerkleRoot(txs), difficulty |-> difficulty]

\* Block.mine_block, lines 101-107, run to its return
RealMineBlock(b) ==
  LET n == CHOOSE k \in b.nonce..(b.nonce + 2) :
             /\ RealStartsWith(RealCalculateHash([b EXCEPT !.nonce = k]), b.difficulty)
             /\ \A j \in b.nonce..(k - 1) :
                  ~RealStartsWith(RealCalculateHash([b EXCEPT !.nonce = j]), b.difficulty)
  IN [b EXCEPT !.nonce = n, !.hash = RealCalculateHash([b EXCEPT !.nonce = n])]

\* The previous_hash "0" of the genesis block
RealZeroHash == [pre |-> <<>>, z |-> 1]

\* RealBlockchain.create_genesis_block at time now
RealGenesisBlock(now) ==
  RealMineBlock(RealBlock(0, now, <<>>, RealZeroHash, RealDifficulty))

\* RealBlockchain.update_balances_from_block: one transaction
RealApplyTx(bal, tx) ==
  LET b1 == IF tx.from_address # "0"
            THEN Put(bal, tx.from_address, Get(bal, tx.from_address) - tx.amount)
            ELSE bal
  IN Put(b1, tx.to_address, Get(b1, tx.to_address) + tx.amount)

RECURSIVE RealApplyTxs(_, _)
\* RealBlockchain.update_balances_from_block: the loop
RealApplyTxs(bal, txs) ==
  IF txs = <<>> THEN bal ELSE RealApplyTxs(RealApplyTx(bal, Head(txs)), Tail(txs))

\* RealBlockchain.verify_transaction
RealVerifyTransaction(tx) == tx.tx_hash = RealTxCalculateHash(tx)

\* The tests of add_transaction, lines 157-165
RealTxAccepted(tx, bal) ==
  \/ tx.from_address = "0"
  \/ /\ RealVerifyTransaction(tx)
     /\ ~(Get(bal, tx.from_address) < tx.amount)

\* RealBlockchain.__init__ with an empty data directory
InitRealChain ==
  /\ real_chain = <<RealGenesisBlock(clock)>>
  /\ real_pending = <<>>
  /\ real_balances = <<>>
  /\ mining_active = FALSE
  /\ real_thread = [t \in RealThreads |-> [pc |-> IF t = 0 THEN "idle" ELSE "off"]]
  /\ real_last = [op |-> "init", ok |-> TRUE, thread |-> 0]

\* Transactions handed to add_transaction at time now: the one the
\* sendtoaddress handler builds from the default mining address to bob, the
\* same after sign_transaction, and one that names "0" as its sender
RealUserTxs(now) ==
  { RealTransaction(RealMiningAddress, "bob", 5, now),
    SignTransaction(RealTransaction(RealMiningAddress, "bob", 5, now)),
    RealTransaction("0", "mallory", 1000, now) }

\* RealBlockchain.add_transaction
RealAddTransaction(tx) ==
  /\ real_thread[0].pc = "idle"
  /\ env < MaxEnv
  /\ env' = env + 1
  /\ IF RealTxAccepted(tx, real_balances)
     THEN real_pending' = Append(real_pending, SignTransaction(tx))
     ELSE UNCHANGED real_pending
  /\ real_last' = [op |-> "add_transaction", ok |-> RealTxAccepted(tx, real_balances),
                   thread |-> 0]
  /\ UNCHANGED <<clock, real_chain, real_balances, mining_active, real_thread>>
  /\ UNCHANGED notRealChain

\* RealBlockchain.start_mining: a new _mining_loop thread unless mining_active
RealStartMining ==
  /\ real_thread[0].pc = "idle"
  /\ ~mining_active
  /\ \E t \in RealLoopThreads :
       /\ real_thread[t].pc = "off"
       /\ \A u \in RealLoopThreads : u < t => real_thread[u].pc # "off"
       /\ real_thread' = [real_thread EXCEPT ![t] = [pc |-> "loop"]]
  /\ mining_active' = TRUE
  /\ real_last' = [op |-> "start_mining", ok |-> TRUE, thread |-> 0]
  /\ UNCHANGED <<clock, env, real_chain, real_pending, real_balances>>
  /\ UNCHANGED notRealChain

\* RealBlockchain.stop_mining: the flag is cleared; join(timeout=5) returns
\* when the thread has ended or after 5 seconds, whichever comes first
RealStopMining ==
  /\ real_thread[0].pc = "idle"
  /\ mining_active
  /\ mining_active' = FALSE
  /\ real_last' = [op |-> "stop_mining", ok |-> TRUE, thread |-> 0]
  /\ UNCHANGED <<clock, env, real_chain, real_pending, real_balances, real_thread>>
  /\ UNCHANGED notRealChain

\* _mining_loop, line 273: the while test fails and the thread ends
RealLoopExit(t) ==
  /\ real_thread[t].pc = "loop"
  /\ ~mining_active
  /\ real_thread' = [real_thread EXCEPT ![t] = [pc |-> "off"]]
  /\ real_last' = [op |-> "loop_exit", ok |-> TRUE, thread |-> t]
  /\ UNCHANGED <<clock, env, real_chain, real_pending, real_balances, mining_active>>
  /\ UNCHANGED notRealChain

\* mine_pending_transactions, lines 175-192 and 95-96, entered from the
\* generate handler (thread 0) or from _mining_loop when its while test and
\* its if test pass (transactions pending, or the second of the clock)
RealMineSnapshot(t) ==
  /\ IF t = 0 THEN real_thread[t].pc = "idle" /\ env < MaxEnv
              ELSE real_thread[t].pc = "loop" /\ mining_active
  /\ Len(real_chain) < MaxChain
  /\ clock' = clock + 1
  /\ env' = IF t = 0 THEN env + 1 ELSE env
  /\ LET reward_tx == SignTransaction(
                        RealTransaction("0", RealMiningAddress, RealMiningReward, clock'))
     IN real_thread' = [real_thread EXCEPT ![t] =
                          [pc |-> "pow",
                           new_block |-> RealBlock(Len(real_chain), clock',
                                                   <<reward_tx>> \o real_pending,
                                                   Last(real_chain).hash,
                                                   RealDifficulty)]]
  /\ real_last' = [op |-> "mining", ok |-> TRUE, thread |-> t]
  /\ UNCHANGED <<real_chain, real_pending, real_balances, mining_active>>
  /\ UNCHANGED notRealChain

\* Block.mine_block, lines 101-107: one pass of the while True loop
RealMinePow(t) ==
  /\ real_thread[t].pc = "pow"
  /\ LET b == real_thread[t].new_block
         h == RealCalculateHash(b)
     IN IF RealStartsWith(h, b.difficulty)
        THEN real_thread' = [real_thread EXCEPT ![t].pc = "append",
                                                ![t].new_block.hash = h]
        ELSE /\ b.nonce < MaxNonce
             /\ real_thread' = [real_thread EXCEPT ![t].new_block.hash = h,
                                                   ![t].new_block.nonce = b.nonce + 1]
  /\ real_last' = [op |-> "mining", ok |-> TRUE, thread |-> t]
  /\ UNCHANGED <<clock, env, real_chain, real_pending, real_balances, mining_active>>
  /\ UNCHANGED notRealChain

\* mine_pending_transactions, lines 195-206: the block is appended, the
\* balances updated, the pool emptied, and the caller gets the block back
\* (the handler answers, _mining_loop sleeps and tests its flag again)
RealMineAppend(t) ==
  /\ real_thread[t].pc = "append"
  /\ real_chain' = Append(real_chain, real_thread[t].new_block)
  /\ real_balances' = RealApplyTxs(real_balances, real_thread[t].new_block.transactions)
  /\ real_pending' = <<>>
  /\ real_thread' = [real_thread EXCEPT ![t] = [pc |-> IF t = 0 THEN "idle" ELSE "loop"]]
  /\ real_last' = [op |-> "mined_block", ok |-> TRUE, thread |-> t]
  /\ UNCHANGED <<clock, env, mining_active>>
  /\ UNCHANGED notRealChain

NextRealChain ==
  \/ \E tx \in RealUserTxs(clock) : RealAddTransaction(tx)
  \/ RealStartMining
  \/ RealStopMining
  \/ \E t \in RealLoopThreads : RealLoopExit(t)
  \/ \E t \in RealThreads : RealMineSnapshot(t)
  \/ \E t \in RealThreads : RealMinePow(t)
  \/ \E t \in RealThreads : RealMineAppend(t)

(***************************************************************************)
(* src/core/seed_node_server.py: SeedNodeServer.  A websocket is named by  *)
(* the peer id of its remote address; the counters total_connections,      *)
(* messages and messages_relayed are left out.                             *)
(***************************************************************************)
SeedPeers == {"10.0.0.1:4001", "10.0.0.2:4002"}

\* The last moment a cleanup pass may start at
SeedHorizon == GenesisTime + StartDelay + (MaxSeedPasses - 1) * SeedCleanupInterval

\* SeedNodeServer.__init__
InitSeedNode ==
  /\ connected_peers = {}
  /\ peer_info = <<>>
  /\ open_sockets = {}

\* del d[k] for the keys in ks
Without(d, ks) == [k \in (DOMAIN d) \ ks |-> d[k]]

\* register_peer, lines 46-62: a peer connects
RegisterPeer(peer_id) ==
  /\ peer_id \notin open_sockets
  /\ open_sockets' = open_sockets \cup {peer_id}
  /\ connected_peers' = connected_peers \cup {peer_id}
  /\ peer_info' = Put(peer_info, peer_id, [connected_at |-> clock, last_seen |-> clock])
  /\ UNCHANGED clock
  /\ UNCHANGED notSeedNode

\* handle_peer_message, lines 110-112, for a message of the connection that
\* register_peer is serving
HandleSeedMessage(peer_id) ==
  /\ peer_id \in open_sockets
  /\ IF peer_id \in DOMAIN peer_info
     THEN peer_info' = [peer_info EXCEPT ![peer_id].last_seen = clock]
     ELSE UNCHANGED peer_info
  /\ UNCHANGED <<clock, connected_peers, open_sockets>>
  /\ UNCHANGED notSeedNode

\* register_peer, lines 93-101: the connection is closed by the peer, or by
\* the keepalive of websockets.serve when the peer answers no ping frame
SeedPeerDisconnects(peer_id) ==
  /\ peer_id \in open_sockets
  /\ open_sockets' = open_sockets \ {peer_id}
  /\ connected_peers' = connected_peers \ {peer_id}
  /\ peer_info' = Without(peer_info, {peer_id})
  /\ UNCHANGED clock
  /\ UNCHANGED notSeedNode

\* The peers a cleanup pass at time now finds stale, lines 270-272
StalePeers(info, now) ==
  {peer_id \in DOMAIN info : now - info[peer_id].last_seen > SeedPeerTimeout}

\* periodic_cleanup: one pass of the loop, the sleep included
PeriodicCleanup ==
  /\ clock <= SeedHorizon
  /\ clock' = clock + SeedCleanupInterval
  /\ peer_info' = Without(peer_info, StalePeers(peer_info, clock'))
  /\ UNCHANGED <<connected_peers, open_sockets>>
  /\ UNCHANGED notSeedNode

NextSeedNode ==
  \/ \E peer_id \in SeedPeers : RegisterPeer(peer_id)
  \/ \E peer_id \in SeedPeers : HandleSeedMessage(peer_id)
  \/ \E peer_id \in SeedPeers : SeedPeerDisconnects(peer_id)
  \/ PeriodicCleanup

(***************************************************************************)
(* The genesis blocks of two ledgers constructed independently, for        *)
(* Blockchain5470, CoreNode and RealBlockchain.                            *)
(***************************************************************************)
\* The moments a ledger may be constructed at
ConstructTimes ==
  {GenesisTime + StartDelay + gap : gap \in 0..MaxConstructGap}

\* CoreNode.mine_block on the chain <<genesis>> at time now, with an empty
\* mempool: the block of index 1 the node announces
NodeFirstBlock(genesis, now) ==
  LET txs == <<NodeCoinbase(WalletAddress, now)>>
  IN NodeBlock(1, txs, genesis.hash, now,
               MinedNonce(1, txs, genesis.hash, now))

\* Two ledgers of each class, the first constructed at time_a and the second
\* at time_b; first_ok: the second CoreNode's validate_block on the block of
\* index 1 the first CoreNode mines one second after its construction
TwoLedgers(time_a, time_b) ==
  [time_a |-> time_a, time_b |-> time_b,
   chain_a |-> GenesisBlock, chain_b |-> GenesisBlock,
   node_a |-> NodeGenesisBlock(time_a), node_b |-> NodeGenesisBlock(time_b),
   real_a |-> RealGenesisBlock(time_a), real_b |-> RealGenesisBlock(time_b),
   first_ok |-> ValidateBlock(<<NodeGenesisBlock(time_b)>>,
                              NodeFirstBlock(NodeGenesisBlock(time_a), time_a + 1))]

InitGenesis == genesis_query = TwoLedgers(clock, clock)

\* Blockchain5470(), CoreNode() and RealBlockchain() on two nodes
ConstructTwo(time_a, time_b) ==
  /\ genesis_query' = TwoLedgers(time_a, time_b)
  /\ UNCHANGED notGenesis

NextGenesis ==
  \E time_a \in ConstructTimes : \E time_b \in ConstructTimes :
    ConstructTwo(time_a, time_b)

(***************************************************************************)
(* DecentralizedNode (src/core/p2p_node.py): the peer table, the           *)
(* connection table and one handler thread per socket, after start_node.   *)
(* A socket is known by its position in the sequence sockets; open: this   *)
(* node has not closed it; eof: the peer has closed its end.  Two fields   *)
(* of a socket record no code keeps: heard, the moment its handler last    *)
(* read a message (the moment of registration before the first one), and   *)
(* steady, whether every wait for a message so far was shorter than the    *)
(* liveness timeout.                                                       *)
(***************************************************************************)
P2PPeerIds == {"127.0.0.1:5001", "127.0.0.1:5002"}

\* The message types handle_peer_message is given here, lines 178-209
P2PMessageTypes == {"ping", "get_peers", "get_blocks"}

\* The last moment a pass of periodic_worker may start at
P2PHorizon == GenesisTime + StartDelay + (MaxP2PPasses - 1) * P2PPingInterval

\* DecentralizedNode.__init__, lines 43-44
InitP2PNode ==
  /\ peers = <<>>
  /\ connections = <<>>
  /\ sockets = <<>>

\* PeerInfo(..., last_seen=time.time(), connected=True)
PeerInfo(now) == [last_seen |-> now, connected |-> TRUE]

\* A socket just connected for peer_id, its handler thread started
NewSocket(peer_id, now) ==
  [peer_id |-> peer_id, open |-> TRUE, eof |-> FALSE, handler |-> "running",
   heard |-> now, steady |-> TRUE]

\* The sockets of peer_id on which the connection still stands at both ends
Established(peer_id) ==
  {s \in DOMAIN sockets :
     sockets[s].peer_id = peer_id /\ sockets[s].open /\ ~sockets[s].eof}

\* peers[peer_id].connected = False, where the peer is known
MarkDisconnected(table, ids) ==
  [p \in DOMAIN table |->
     IF p \in ids THEN [table[p] EXCEPT !.connected = FALSE] ELSE table[p]]

\* start_p2p_server accepts a connection and handle_peer_connection registers
\* it, lines 122-139; a peer id is the remote address and port, so no
\* connection from them stands when another is accepted
HandlePeerConnection(peer_id) ==
  /\ Len(sockets) < MaxSockets
  /\ Established(peer_id) = {}
  /\ sockets' = Append(sockets, NewSocket(peer_id, clock))
  /\ connections' = Put(connections, peer_id, Len(sockets) + 1)
  /\ peers' = Put(peers, peer_id, PeerInfo(clock))
  /\ UNCHANGED clock
  /\ UNCHANGED notP2PNode

\* connect_to_peer, lines 243-280
P2PConnectToPeer(peer_id) ==
  /\ Len(sockets) < MaxSockets
  /\ peer_id \notin DOMAIN connections
  /\ sockets' = Append(sockets, NewSocket(peer_id, clock))
  /\ connections' = Put(connections, peer_id, Len(sockets) + 1)
  /\ peers' = Put(peers, peer_id, PeerInfo(clock))
  /\ UNCHANGED clock
  /\ UNCHANGED notP2PNode

\* The finally clause of handle_peer_connection and of handle_outgoing_peer
\* for socket s, lines 158-170 and 301-312
HandlerCleanup(s) ==
  LET peer_id == sockets[s].peer_id
  IN /\ sockets' = [sockets EXCEPT ![s].open = FALSE, ![s].handler = "done"]
     /\ connections' = Without(connections, {peer_id})
     /\ peers' = MarkDisconnected(peers, {peer_id})

\* One turn of the handler's loop on socket s that reads a message of type
\* msg_type, lines 142-156 and 174-209: ping and get_peers are answered;
\* get_blocks reads self.blockchain.blocks, which RealBlockchain does not
\* have, and the exception ends the loop
HandlePeerMessage(s, msg_type) ==
  /\ sockets[s].open
  /\ ~sockets[s].eof
  /\ sockets[s].handler = "running"
  /\ IF msg_type = "get_blocks"
       THEN HandlerCleanup(s)
       ELSE /\ sockets' = [sockets EXCEPT
                  ![s].heard = clock,
                  ![s].steady = sockets[s].steady
                                /\ clock - sockets[s].heard < P2PPeerTimeout]
            /\ UNCHANGED <<peers, connections>>
  /\ UNCHANGED clock
  /\ UNCHANGED notP2PNode

\* The peer closes its end of socket s
P2PPeerCloses(s) ==
  /\ ~sockets[s].eof
  /\ sockets' = [sockets EXCEPT ![s].eof = TRUE]
  /\ UNCHANGED <<peers, connections, clock>>
  /\ UNCHANGED notP2PNode

\* The handler of a socket the peer closed, where recv returns no data (lines
\* 144-146), or cleanup_dead_peers closed, where recv raises (lines 152-154):
\* it leaves its loop
HandlerSeesClosed(s) ==
  /\ ~sockets[s].open \/ sockets[s].eof
  /\ sockets[s].handler = "running"
  /\ HandlerCleanup(s)
  /\ UNCHANGED clock
  /\ UNCHANGED notP2PNode

\* The peers cleanup_dead_peers finds dead at time now, lines 461-463
DeadPeers(table, now) ==
  {peer_id \in DOMAIN table : now - table[peer_id].last_seen > P2PPeerTimeout}

\* One pass of periodic_worker, lines 435-446: the ping broadcast and
\* discover_peers only send; cleanup_dead_peers; then the sleep
PeriodicWorker ==
  LET dead_peers == DeadPeers(peers, clock)
      closed == {connections[peer_id] : peer_id \in dead_peers \cap DOMAIN connections}
  IN /\ clock <= P2PHorizon
     /\ sockets' = [s \in DOMAIN sockets |->
                      IF s \in closed THEN [sockets[s] EXCEPT !.open = FALSE]
                      ELSE sockets[s]]
     /\ connections' = Without(connections, dead_peers)
     /\ peers' = MarkDisconnected(peers, dead_peers)
     /\ clock' = clock + P2PPingInterval
     /\ UNCHANGED notP2PNode

NextP2PNode ==
  \/ \E peer_id \in P2PPeerIds : HandlePeerConnection(peer_id)
  \/ \E peer_id \in P2PPeerIds : P2PConnectToPeer(peer_id)
  \/ \E s \in DOMAIN sockets : \E msg_type \in P2PMessageTypes :
       HandlePeerMessage(s, msg_type)
  \/ \E s \in DOMAIN sockets : P2PPeerCloses(s)
  \/ \E s \in DOMAIN sockets : HandlerSeesClosed(s)
  \/ PeriodicWorker

(***************************************************************************)
(* Specifications: one per implementation, from the state in which every   *)
(* ledger has just been constructed.                                       *)
(***************************************************************************)
Init ==
  /\ clock = GenesisTime + StartDelay
  /\ env = 0
  /\ InitChain5470
  /\ InitCoreNode
  /\ InitLedger
  /\ InitReward
  /\ InitRealChain
  /\ InitSeedNode
  /\ InitP2PNode
  /\ InitGenesis
  /\ InitRetarget

SpecChain5470 == Init /\ [][NextChain5470]_vars

SpecCoreNode == Init /\ [][NextCoreNode]_vars

SpecPeerConn == Init /\ [][NextPeerConn]_vars

\* CoreNode with a peer that answers every version message and a handler
\* thread that processes every message delivered on the outbound socket
SpecCoreNodeSync ==
  /\ Init
  /\ [][NextCoreNode]_vars
  /\ WF_vars(\E ahead \in 1..MaxAhead : PeerSendsVerack(ahead))
  /\ WF_vars(ProcessVerackMessage)

\* CoreNode with restarts of its process
SpecCoreNodeRestart == Init /\ [][NextCoreNodeRestart]_vars

\* Blockchain5470 with one mining worker and nothing else
SpecChainSeq == Init /\ [][NextChainSeq]_vars

\* Blockchain5470 with two mining workers
SpecChainRace == Init /\ [][NextChainRace]_vars

\* _adjust_difficulty asked about chains and targets
SpecRetarget == Init /\ [][NextRetarget]_vars

SpecLedger == Init /\ [][NextLedger]_vars

SpecReward == Init /\ [][NextReward]_vars

SpecRealChain == Init /\ [][NextRealChain]_vars

SpecSeedNode == Init /\ [][NextSeedNode]_vars

SpecP2PNode == Init /\ [][NextP2PNode]_vars

\* Two ledgers of each class constructed at two moments
SpecGenesis == Init /\ [][NextGenesis]_vars

(***************************************************************************)
(* Properties of Blockchain5470 (SpecChain5470).                           *)
(***************************************************************************)
\* C1: chain integrity: for every i > 0 the previous-hash field of block i
\* is the hash of block i-1, whatever the interleaving of the miners.
C1_ChainIntegrity ==
  \A i \in 2..Len(chain) :
     chain[i].header.prev_hash = HeaderGetHash(chain[i - 1].header)

\* C3: fork-choice monotonicity: the cumulative work recorded for the
\* canonical tip, best_work, never decreases in any step.
C3_BestWorkNeverDecreases == [][best_work' >= best_work]_vars

\* The work one block contributes: the genesis block's recorded work, and
\* 2^n_bits for a mined block.
OwnWork(c, i) == IF i = 1 THEN c[1].work ELSE Pow2(c[i].header.n_bits)

RECURSIVE SumOwnWork(_, _)
SumOwnWork(c, n) == IF n = 0 THEN 0 ELSE SumOwnWork(c, n - 1) + OwnWork(c, n)

\* C4: in every reachable state, the fresh ledger included, the ledger's
\* cumulative work equals the sum of the work of the blocks in its chain.
C4_CumulativeWorkIsSum == best_work = SumOwnWork(chain, Len(chain))

\* C8: every block appended at a height above 0 has a header hash below
\* 2^(256 - n_bits), i.e. at least n_bits leading zero bits, for the
\* difficulty target n_bits recorded in its own header.
C8_AcceptedBlocksMeetTarget ==
  \A i \in 2..Len(chain) :
     HeaderZeroBits(chain[i].header) >= chain[i].header.n_bits

\* C8 witness: a mined block carrying a mempool transaction is in the chain.
C8_Witness ==
  /\ Len(chain) >= 2
  /\ Len(chain[2].transactions) >= 2
  /\ chain[2].header.height = 1

\* C9: Scenario A: the genesis block has height 0, the sentinel previous
\* hash, a body of exactly one coinbase transaction, and verify_block
\* accepts it under the initial difficulty target.
C9_GenesisScenarioA ==
  /\ chain[1].header.height = 0
  /\ chain[1].header.prev_hash = ZeroHash
  /\ Len(chain[1].transactions) = 1
  /\ chain[1].transactions[1].is_coinbase
  /\ chain[1].header.n_bits = InitialDifficulty
  /\ VerifyBlock(chain[1])

\* Whether mining worker m is inside a section that changes the chain, the
\* mempool, best_work or the difficulty target.  The sections under
\* self.lock are single steps; _adjust_difficulty runs after the lock was
\* released.
InMutatingSection(m) == miner[m].pc = "adjust"

\* C16: the mutating operations (block acceptance, submission, eviction,
\* difficulty retarget) run under one mutual-exclusion domain: no two
\* threads are inside their mutating sections at the same time.
C16_MutualExclusion ==
  \A m1, m2 \in Miners :
     (InMutatingSection(m1) /\ InMutatingSection(m2)) => m1 = m2

\* Whether the step submits the candidate of mining worker m (its search
\* ends with a header below the target) and that candidate was built on a
\* block that is no longer the tip
SubmitsStale(m) ==
  /\ miner[m].pc = "search"
  /\ miner'[m].pc \in {"adjust", "evict"}
  /\ miner[m].header.prev_hash # HeaderGetHash(Last(chain).header)

\* C17: stale work is discarded: a candidate built on an old tip, the tip
\* having advanced during the nonce search, is not appended when it is
\* submitted.
C17_StaleWorkDiscarded ==
  [][\A m \in Miners : SubmitsStale(m) => chain' = chain]_vars

\* C21: every accepted block has a non-empty transaction list whose first
\* transaction is the coinbase and in which no other transaction is a
\* coinbase transaction, whatever was submitted to the mempool before.
C21_OneCoinbaseFirst ==
  \A i \in 1..Len(chain) :
     /\ chain[i].transactions # <<>>
     /\ chain[i].transactions[1].is_coinbase
     /\ \A j \in 2..Len(chain[i].transactions) : ~chain[i].transactions[j].is_coinbase

\* Candidates made from an accepted block by keeping its header and
\* replacing its transaction list: by the empty list, by a lone coinbase
\* that pays another address, by the list without its last transaction
SameHeaderCandidates(b) ==
  { [b EXCEPT !.transactions = txs] :
      txs \in { <<>>,
                <<CoinbaseTransaction("mallory", b.header.timestamp)>>,
                SubSeq(b.transactions, 1, Len(b.transactions) - 1) } }

C30_SignVerifyRoundTrip ==
  [][\A tx \in CreatedTxs(clock) :
        AddTransactionToMempool(tx)
          => (VerifySignature(tx) /\ mempool' = Append(mempool, tx))]_vars

\* C26: difficulty retarget rule: at a retarget check over a full window
\* the new difficulty is old + 1 if the observed average block interval
\* (the time between the first and the last block of the window over the
\* 9 intervals between them) is less than half the target interval,
\* max(minimum, old - 1) if it is more than double, and old otherwise; the
\* difficulty never falls below the minimum.
C26_RetargetRule ==
  LET q == retarget_query
      intervals == RetargetWindow - 1
      fast == 2 * q.time_diff < intervals * BlockTimeTarget
      slow == q.time_diff > 2 * intervals * BlockTimeTarget
      lowered == IF q.old - 1 < MinDifficulty THEN MinDifficulty ELSE q.old - 1
  IN /\ q.len >= RetargetWindow
          => q.new = (IF fast THEN q.old + 1 ELSE IF slow THEN lowered ELSE q.old)
     /\ q.new >= MinDifficulty

\* C26 witness: a full window of slow blocks is checked with the difficulty
\* at its minimum, and the difficulty stays there
C26_Witness ==
  /\ retarget_query.len = RetargetWindow
  /\ retarget_query.old = MinDifficulty
  /\ retarget_query.time_diff > 2 * (RetargetWindow - 1) * BlockTimeTarget
  /\ retarget_query.new = MinDifficulty

\* The difficulty target in force once the k-th block of the chain was
\* accepted: the lone worker mines the next block with it
TargetAfter(k) == IF k < Len(chain) THEN chain[k + 1].header.n_bits ELSE difficulty_target

\* Whether accepting the k-th block of the chain changed the difficulty
\* target, that is the one the block itself was mined with
RetargetedAt(k) == TargetAfter(k) # chain[k].header.n_bits

\* C27: the difficulty is retargeted once per window of N = 10 blocks: the
\* target does not change while the chain holds fewer than N blocks, and
\* afterwards it changes at most once per N accepted blocks.
C27_RetargetOncePerWindow ==
  /\ \A k \in 1..Len(chain) : k < RetargetWindow => ~RetargetedAt(k)
  /\ \A k1, k2 \in 1..Len(chain) :
        (k1 < k2 /\ RetargetedAt(k1) /\ RetargetedAt(k2)) => k2 - k1 >= RetargetWindow

(***************************************************************************)
(* Properties of CoreNode (SpecCoreNode).                                  *)
(***************************************************************************)
\* The hashes of the transactions held in the mempool of the node
NodeMempoolHashes == {node_mempool[i].tx_hash : i \in 1..Len(node_mempool)}

\* C5: mempool exclusivity: right after a block was accepted, mined by the
\* node or received from a peer, none of the block's transactions is still
\* in the mempool.
C5_MempoolExclusivity ==
  (node_last.op \in {"peer_block", "mined_block"} /\ node_last.ok)
    => \A i \in 1..Len(Last(blockchain).transactions) :
          Last(blockchain).transactions[i].tx_hash \notin NodeMempoolHashes

\* C6: all-or-nothing acceptance: a step in which a candidate block, from a
\* peer or from the node's own miner, is rejected leaves the chain, the
\* table of received outputs and the mempool as they were.
C6_RejectionChangesNothing ==
  [][(node_last'.op \in {"peer_block", "mined_block"} /\ ~node_last'.ok)
       => UNCHANGED <<blockchain, utxo_set, node_mempool>>]_vars

\* The places (block, position) of the chain that hold a transfer, i.e. a
\* transaction that is neither the genesis grant nor a coinbase
TransferPlaces ==
  {p \in (1..Len(blockchain)) \X (1..(NodeBlockSizeLimit + 1)) :
     /\ p[2] <= Len(blockchain[p[1]].transactions)
     /\ blockchain[p[1]].transactions[p[2]].from_address \notin {"genesis", "coinbase"}}

\* C7: a transaction is referenced in at most one place of the chain: no
\* transaction hash appears in two blocks, or twice in one block.
C7_TxInAtMostOneBlock ==
  \A p, q \in TransferPlaces :
     p # q => blockchain[p[1]].transactions[p[2]].tx_hash
                # blockchain[q[1]].transactions[q[2]].tx_hash

(***************************************************************************)
(* Properties of Blockchain (SpecLedger).                                  *)
(***************************************************************************)
\* C2: no negative balances: after any sequence of transaction submissions
\* and accepted blocks every address of the balance table holds >= 0, also
\* when one sender had several transactions pending before the block.
C2_NoNegativeBalances == \A a \in DOMAIN balances : balances[a] >= 0

\* Whether the step that ran last was a /tx request carrying a transaction
\* that is not privileged and whose nonce is above the sender's next
\* expected nonce
GapSubmitted(last, non) ==
  /\ last.op = "tx"
  /\ ~Privileged(last.tx)
  /\ last.tx.nonce > Get(non, last.tx.from_address)

\* C10: Scenario B: a /tx request with a non-privileged transaction whose
\* nonce is greater than the sender's next expected nonce is rejected, the
\* transaction is not added to the pending pool, and the pool, the chain,
\* the balances and the nonces are unchanged.
C10_GapNonceRejected ==
  [][GapSubmitted(zk_last', nonces)
       => /\ ~zk_last'.ok
          /\ UNCHANGED <<pending_transactions, zk_chain, balances, nonces>>]_vars

\* C10 witness: a /tx request was rejected whose transaction has the right
\* chain id, a signature that verifies and a sender who can pay amount and
\* fee, and whose nonce is above the sender's next expected nonce.
C10_Witness ==
  /\ GapSubmitted(zk_last, nonces)
  /\ ~zk_last.ok
  /\ zk_last.tx.chain_id = ChainId
  /\ ZkVerifySignature(zk_last.tx)
  /\ Get(balances, zk_last.tx.from_address) >= zk_last.tx.amount + Fee(zk_last.tx.amount)
  /\ Len(zk_chain) >= 2

\* C22: for every accepted block the amount of a coinbase transaction (a
\* transaction that mints, sent by "system") equals the block reward that
\* the halving schedule gives for the block's height; a block that carries
\* a coinbase of another amount is not in the chain.
C22_CoinbaseIsBlockReward ==
  \A i \in 2..Len(zk_chain) :
     /\ zk_chain[i].transactions # <<>>
     /\ \A j \in 1..Len(zk_chain[i].transactions) :
           zk_chain[i].transactions[j].from_address = "system"
             => zk_chain[i].transactions[j].amount = GetBlockReward(zk_chain[i].index)

\* C20: submission counts the queued transactions of a sender as well as
\* the confirmed ones when it tests the nonce, so the pending pool never
\* holds two transactions of one sender with the same nonce.
C20_PendingNoncesDistinct ==
  \A i, j \in 1..Len(pending_transactions) :
     (/\ i < j
      /\ ~Privileged(pending_transactions[i])
      /\ pending_transactions[i].from_address = pending_transactions[j].from_address)
       => pending_transactions[i].nonce # pending_transactions[j].nonce

(***************************************************************************)
(* Properties of get_block_reward (SpecReward).                            *)
(***************************************************************************)
\* floor(x / 2^n) for 0 <= x < 2^30, without forming 2^n beyond 2^30
FloorDivPow2(x, n) == IF n <= 30 THEN x \div Pow2(n) ELSE 0

\* C11: Scenario D: at every height h the reward is the initial reward
\* floor-divided by 2^(h div HalvingInterval); at height HalvingInterval it
\* is floor(reward(0) / 2); it is 0 once the number of halvings exceeds the
\* ceiling MaxHalvings.
C11_RewardHalving ==
  LET h == reward_query.height
      halvings == h \div HalvingInterval
  IN /\ reward_query.reward = FloorDivPow2(BlockRewardInitial, halvings)
     /\ h = HalvingInterval => reward_query.reward = GetBlockReward(0) \div 2
     /\ halvings > MaxHalvings => reward_query.reward = 0

\* C11 witness: the reward was asked at the height HalvingInterval and at
\* that height it is half of the initial reward and not zero.
C11_Witness ==
  /\ reward_query.height = HalvingInterval
  /\ reward_query.reward = BlockRewardInitial \div 2
  /\ reward_query.reward > 0

\* Whether block is a fork block for the chain bc: it is mined, its declared
\* hash is the hash of its fields, and its parent is a block of bc other
\* than the tip, one height below it
ForkBlock(bc, block) ==
  /\ StartsWithZeros(block.hash)
  /\ block.hash = NodeCalculateHash(block)
  /\ \E i \in 1..(Len(bc) - 1) :
        /\ block.previous_hash = bc[i].hash
        /\ block.index = bc[i].index + 1

\* C14: Scenario C, fork choice: a valid block that arrives for a height the
\* chain already holds, its parent being a known ancestor that is not the
\* tip, is kept by the node as a fork (so that the branch can take over once
\* its cumulative work is strictly greater).
C14_ForkBlockKept ==
  [][\A block \in PeerBlocks(blockchain, clock) :
        (ForkBlock(blockchain, block) /\ ProcessBlocksMessage(block))
          => InSeq(block, blockchain')]_vars

\* C15: a transaction accepted from a peer is re-broadcast exactly once: the
\* node never writes a second tx message for the same transaction hash.
C15_RebroadcastOnce ==
  \A i, j \in 1..Len(sent) :
     (i < j /\ sent[i].command = "tx" /\ sent[j].command = "tx")
       => sent[i].id # sent[j].id

\* C18: handshake sync: once the handshake with a peer is through and the
\* peer announced a best height above the node's own, the node eventually
\* holds the blocks up to that height, every message being delivered.
C18_HandshakeSync ==
  (peer_link.state = "done" /\ peer_link.best_height > Len(blockchain) - 1)
    ~> (peer_link.state = "done" /\ Len(blockchain) - 1 >= peer_link.best_height)

\* C24: proof-of-work verification recomputes the hash from the block's own
\* fields: a peer block whose declared hash differs from the recomputed one
\* is rejected, so every block in the chain has hash = calculate_hash(block).
C24_HashRecomputed ==
  \A i \in 1..Len(blockchain) : blockchain[i].hash = NodeCalculateHash(blockchain[i])

RECURSIVE ReplayUtxo(_)
\* The table update_utxo_set builds when it is run over every block of the
\* chain bc, from the genesis block on
ReplayUtxo(bc) ==
  IF bc = <<>> THEN <<>>
  ELSE UpdateUtxoSet(ReplayUtxo(SubSeq(bc, 1, Len(bc) - 1)), Last(bc).transactions)

\* C25: durability: when the node restarts after a block was accepted and
\* saved, the reloaded chain resumes at the last durably saved height and
\* the balance table is the one obtained by replaying the reloaded chain
\* from genesis.
C25_RestartResumes ==
  [][(NodeRestart /\ Len(blockchain_file) >= 2)
       => /\ Len(blockchain') = Len(blockchain_file)
          /\ utxo_set' = ReplayUtxo(blockchain')]_vars

\* C19: the mempool never holds two transactions with the same transaction
\* hash: a transaction whose hash is already in the pool is turned away.
C19_NoDuplicateInMempool ==
  \A i, j \in 1..Len(node_mempool) :
     i < j => node_mempool[i].tx_hash # node_mempool[j].tx_hash

(***************************************************************************)
(* Properties of one inbound connection of CoreNode (SpecPeerConn).        *)
(***************************************************************************)
\* C12: Scenario E, termination: the number of unparsable messages in a row
\* that an open connection has carried stays below MalformedRun; by the
\* time a peer has sent that many the node has closed the connection.
C12_MalformedRunTerminates ==
  conn.malformed >= MalformedRun => conn.state = "closed"

\* C13: Scenario E, frame: a step that handles an unparsable message, a
\* message of unknown command or a message with a structurally invalid
\* payload leaves the chain and the mempool unchanged.
C13_BadMessageChangesNothing ==
  [][node_last'.op \in {"malformed", "unknown", "bad_tx", "bad_blocks"}
       => UNCHANGED <<blockchain, node_mempool>>]_vars

(***************************************************************************)
(* Properties of RealBlockchain (SpecRealChain).                           *)
(***************************************************************************)
\* C28: mining is cooperatively cancellable: once stop_mining has cleared
\* the flag, a search in progress in a _mining_loop thread ends with the
\* next hash attempt that misses, and a _mining_loop thread appends no
\* block while the flag is cleared.
C28_MiningCancellable ==
  [][\A t \in RealLoopThreads :
       (~mining_active /\ real_thread[t].pc \in {"pow", "append"}
          /\ real_thread'[t] # real_thread[t])
       => /\ real_thread'[t].pc # "pow"
          /\ real_chain' = real_chain]_vars

(***************************************************************************)
(* Properties of SeedNodeServer (SpecSeedNode).                            *)
(***************************************************************************)
\* C29: a peer silent for longer than the liveness timeout is pruned at the
\* next cleanup pass: after the pass its connection is closed, it is out of
\* the connection table and it is no longer reported as a connected peer.
C29_SilentPeerPruned ==
  [][PeriodicCleanup =>
       \A peer_id \in StalePeers(peer_info, clock') :
         /\ peer_id \notin open_sockets'
         /\ peer_id \notin connected_peers'
         /\ peer_id \notin DOMAIN peer_info']_vars

\* C31: for every i > 0 the index (height) of block i of RealBlockchain's
\* chain is the index of block i-1 plus one, whatever the interleaving of
\* the _mining_loop threads with the generate handler.
C31_HeightsConsecutive ==
  \A i \in 2..Len(real_chain) : real_chain[i].index = real_chain[i - 1].index + 1

C33_GenesisFixed ==
  /\ genesis_query.chain_a = genesis_query.chain_b
  /\ genesis_query.node_a = genesis_query.node_b
  /\ genesis_query.real_a = genesis_query.real_b
  /\ genesis_query.first_ok

(***************************************************************************)
(* Properties of Blockchain5470 with two workers (SpecChainRace).          *)
(***************************************************************************)
\* C34: a block is accepted only under the ledger's current difficulty
\* target: whenever a block is appended, the target recorded in its header
\* is the ledger's difficulty_target at that moment.
C34_AcceptedUnderCurrentTarget ==
  [][Len(chain') > Len(chain) => Last(chain').header.n_bits = difficulty_target]_vars

(***************************************************************************)
(* Properties of Blockchain5470, continued (SpecChain5470).                *)
(***************************************************************************)
\* C35: at most one mining worker is active at any time: whatever the
\* sequence of start_mining and stop_mining calls, no two mining_worker
\* threads of one Blockchain5470 run at once.
C35_OneMiningWorker ==
  Cardinality({m \in Miners : miner[m].pc # "off"}) <= 1

(***************************************************************************)
(* Properties of RealBlockchain, continued (SpecRealChain).                *)
(***************************************************************************)
\* C36: no pending transaction is silently lost: a transaction of the
\* pending pool leaves the pool only in a step after which a block of the
\* chain contains it.
C36_PendingNotLost ==
  [][\A i \in 1..Len(real_pending) :
       ~InSeq(real_pending[i], real_pending')
       => \E k \in 1..Len(real_chain') :
            InSeq(real_pending[i], real_chain'[k].transactions)]_vars

(***************************************************************************)
(* Properties of CoreNode, continued (SpecCoreNode).                       *)
(***************************************************************************)
\* C38: a locally mined block is announced to the peers only if the local
\* chain accepted it: the step in which add_block does not append the mined
\* block sends no message.
C38_AnnounceOnlyAccepted ==
  [][(node_last'.op = "mined_block" /\ ~node_last'.ok) => sent' = sent]_vars

RECURSIVE SumOf(_, _)
\* The sum of the table d over the addresses as
SumOf(d, as) ==
  IF as = {} THEN 0
  ELSE LET a == CHOOSE x \in as : TRUE IN d[a] + SumOf(d, as \ {a})

RECURSIVE PrivilegedAmount(_)
\* The amounts of the genesis and system transactions among txs, summed
PrivilegedAmount(txs) ==
  IF txs = <<>> THEN 0
  ELSE (IF Head(txs).from_address \in {"system", "genesis"} THEN Head(txs).amount ELSE 0)
       + PrivilegedAmount(Tail(txs))

RECURSIVE PrivilegedSupply(_, _)
\* The amounts of the genesis and system transactions of the blocks c[k..]
PrivilegedSupply(c, k) ==
  IF k > Len(c) THEN 0
  ELSE PrivilegedAmount(c[k].transactions) + PrivilegedSupply(c, k + 1)

C37_ActivePeerNotPruned ==
  [][\A peer_id \in P2PPeerIds :
       (/\ clock' # clock
        /\ peer_id \in DOMAIN connections
        /\ sockets[connections[peer_id]].open
        /\ ~sockets[connections[peer_id]].eof
        /\ sockets[connections[peer_id]].steady
        /\ clock - sockets[connections[peer_id]].heard < P2PPeerTimeout)
       => (/\ peer_id \in DOMAIN connections'
           /\ connections'[peer_id] = connections[peer_id]
           /\ peers'[peer_id].connected)]_vars

\* C40: a connection handler's cleanup removes only its own socket: when the
\* handler of a socket exits while a newer socket is registered under the
\* same peer id, the newer socket stays in the connection table and the peer
\* stays marked connected.
C40_CleanupOwnSocketOnly ==
  [][\A s \in DOMAIN sockets :
       (/\ sockets[s].handler = "running"
        /\ sockets'[s].handler = "done"
        /\ sockets[s].peer_id \in DOMAIN connections
        /\ connections[sockets[s].peer_id] # s)
       => (/\ sockets[s].peer_id \in DOMAIN connections'
           /\ connections'[sockets[s].peer_id] = connections[sockets[s].peer_id]
           /\ peers'[sockets[s].peer_id].connected)]_vars

====
